---- MODULE Spec2Model ----
(***************************************************************************)
(* A model of the request converters of gemini_migration:                  *)
(*   ClaudeToGeminiConverter  (claude_to_gemini_converter.py)              *)
(*   ClaudeToOpenAIConverter  (converter_claude2openai.py)                 *)
(*   OpenAIToGeminiConverter  (converter_openai2gemini.py)                 *)
(* and of the schema repair pass fix_request_issues.                       *)
(*                                                                         *)
(* Python values are tagged records: [k |-> "str", s |-> tokens],          *)
(* [k |-> "null"], [k |-> "list", items |-> seq], [k |-> "obj", ...].      *)
(* A Python string is a sequence of tokens; a token is a run of            *)
(* characters that the code never looks inside.  The empty string is <<>>. *)
(* A dict key that is absent is modelled by the default its .get() gives.  *)
(***************************************************************************)
EXTENDS Integers, Sequences, FiniteSets, TLC

VARIABLES
    fmt,        \* wire format of the payload under construction
    messages,   \* payload["messages"] (request["contents"] of a Gemini request)
    tools,      \* payload["tools"]: declarations whose schema is a heap address
                \* (the functionDeclarations of a Gemini request)
    heap,       \* address -> schema object (Python dicts are shared by reference)
    pc,         \* "build" while the caller assembles the payload, then "done"
    out         \* what the call returned: direction, raised/exc or value

vars == <<fmt, messages, tools, heap, pc, out>>

----------------------------------------------------------------------------
(* Python values *)

PyStr(s) == [k |-> "str", s |-> s]
PyNone == [k |-> "null"]
PyList(xs) == [k |-> "list", items |-> xs]
PyObj(pairs) == [k |-> "obj", pairs |-> pairs]
PyNum(n) == [k |-> "num", n |-> n]

EmptyStr == <<>>
Unknown == <<"unknown">>

RECURSIVE Concat(_)
\* "".join(parts) for a sequence of token sequences
Concat(ss) == IF ss = <<>> THEN <<>> ELSE Head(ss) \o Concat(Tail(ss))

RECURSIVE Join(_, _)
\* sep.join(ss)
Join(sep, ss) ==
    IF ss = <<>> THEN <<>>
    ELSE IF Len(ss) = 1 THEN ss[1]
    ELSE ss[1] \o sep \o Join(sep, Tail(ss))

RECURSIVE SelectIdx(_, _)
\* the indices n >= i, in order, at which the test of a list comprehension's
\* filter holds; keep[n] is the test on the n-th element
SelectIdx(keep, i) ==
    IF i > Len(keep) THEN <<>>
    ELSE (IF keep[i] THEN <<i>> ELSE <<>>) \o SelectIdx(keep, i + 1)

\* the blocks' type names as Python prints them inside str(list)
ReprItem(item) == <<"{'type': '", item.type, "'}">>

\* str(v) of a value that is not a string: None, or a list of dicts
StrOf(v) ==
    IF v.k = "str" THEN v.s
    ELSE IF v.k = "null" THEN <<"None">>
    ELSE IF v.k = "list"
         THEN <<"[">> \o Join(<<", ">>, [i \in 1..Len(v.items) |-> ReprItem(v.items[i])]) \o <<"]">>
    ELSE <<"<obj>">>

----------------------------------------------------------------------------
\* re.search of the pattern: the words "Observation of Tool ", a backtick, one or
\* more characters that are not backticks (the group), and a backtick.
\* The token ObsWords stands for the words and Tick for the backtick; every
\* other token is a run of characters without backticks.

ObsWords == "Observation of Tool "
Tick == "<backtick>"

RECURSIVE RunEnd(_, _)
\* [^`]+ is greedy: the first position >= i holding a backtick, or Len+1
RunEnd(s, i) ==
    IF i > Len(s) \/ s[i] = Tick THEN i ELSE RunEnd(s, i + 1)

\* the pattern matches with its first character at position i
MatchAt(s, i) ==
    /\ i + 3 <= Len(s)
    /\ s[i] = ObsWords
    /\ s[i + 1] = Tick
    /\ RunEnd(s, i + 2) > i + 2
    /\ RunEnd(s, i + 2) <= Len(s)

GroupAt(s, i) == SubSeq(s, i + 2, RunEnd(s, i + 2) - 1)

RECURSIVE SearchFrom_Last(_, _)
\* variant: the last match of the scan is returned
SearchFrom_Last(s, i) ==
    IF i > Len(s) THEN [found |-> FALSE]
    ELSE LET later == SearchFrom_Last(s, i + 1)
         IN  IF later.found THEN later
             ELSE IF MatchAt(s, i) THEN [found |-> TRUE, group |-> GroupAt(s, i)]
             ELSE later

RECURSIVE SearchFrom(_, _)
\* re.search scans start positions left to right and returns the first match
SearchFrom(s, i) ==
    IF i > Len(s) THEN [found |-> FALSE]
    ELSE IF MatchAt(s, i) THEN [found |-> TRUE, group |-> GroupAt(s, i)]
    ELSE SearchFrom(s, i + 1)

ReSearchObservation(s) == SearchFrom(s, 1)

----------------------------------------------------------------------------
\* json.dumps and json.loads on the fragment of JSON the tool arguments use.
\* A JSON text is a token sequence over the punctuation tokens below, the
\* quote, the word null, one-digit numbers and the tokens of string bodies.
\* A dict is PyObj(pairs), pairs a sequence of [key, val] in insertion order.

Quote == "\""
Digits == 0..9
NumTok(n) == ToString(n)
IsNumTok(t) == \E n \in Digits : NumTok(n) = t
NumOfTok(t) == CHOOSE n \in Digits : NumTok(n) = t

RECURSIVE Dumps(_)
Dumps(v) ==
    CASE v.k = "num" -> <<NumTok(v.n)>>
      [] v.k = "str" -> <<Quote>> \o v.s \o <<Quote>>
      [] v.k = "null" -> <<"null">>
      [] v.k = "list" ->
            <<"[">> \o Join(<<",">>, [i \in 1..Len(v.items) |-> Dumps(v.items[i])]) \o <<"]">>
      [] v.k = "obj" ->
            <<"{">> \o Join(<<",">>, [i \in 1..Len(v.pairs) |->
                        <<Quote>> \o v.pairs[i].key \o <<Quote, ":">> \o Dumps(v.pairs[i].val)])
                   \o <<"}">>

\* d[key] = val on an insertion-ordered dict
DictSet(pairs, key, val) ==
    IF \E i \in 1..Len(pairs) : pairs[i].key = key
    THEN [i \in 1..Len(pairs) |-> IF pairs[i].key = key THEN [key |-> key, val |-> val] ELSE pairs[i]]
    ELSE Append(pairs, [key |-> key, val |-> val])

RECURSIVE QuoteEnd(_, _)
\* the position of the first quote at or after i, or Len+1
QuoteEnd(ts, i) == IF i > Len(ts) \/ ts[i] = Quote THEN i ELSE QuoteEnd(ts, i + 1)

ParseFail == [ok |-> FALSE]

RECURSIVE ParseValue(_, _)
RECURSIVE ParseMembers(_, _, _)
RECURSIVE ParseElements(_, _, _)

\* one JSON value starting at position i: [ok, val, next]
ParseValue(ts, i) ==
    IF i > Len(ts) THEN ParseFail
    ELSE IF ts[i] = "null" THEN [ok |-> TRUE, val |-> PyNone, next |-> i + 1]
    ELSE IF IsNumTok(ts[i]) THEN [ok |-> TRUE, val |-> PyNum(NumOfTok(ts[i])), next |-> i + 1]
    ELSE IF ts[i] = Quote
         THEN LET j == QuoteEnd(ts, i + 1)
              IN  IF j > Len(ts) THEN ParseFail
                  ELSE [ok |-> TRUE, val |-> PyStr(SubSeq(ts, i + 1, j - 1)), next |-> j + 1]
    ELSE IF ts[i] = "{"
         THEN IF i + 1 <= Len(ts) /\ ts[i + 1] = "}"
              THEN [ok |-> TRUE, val |-> PyObj(<<>>), next |-> i + 2]
              ELSE ParseMembers(ts, i + 1, <<>>)
    ELSE IF ts[i] = "["
         THEN IF i + 1 <= Len(ts) /\ ts[i + 1] = "]"
              THEN [ok |-> TRUE, val |-> PyList(<<>>), next |-> i + 2]
              ELSE ParseElements(ts, i + 1, <<>>)
    ELSE ParseFail

\* "key": value pairs up to the closing brace, the first pair starting at i
ParseMembers(ts, i, acc) ==
    IF i > Len(ts) \/ ts[i] # Quote THEN ParseFail
    ELSE LET j == QuoteEnd(ts, i + 1)
         IN  IF j + 1 > Len(ts) \/ ts[j + 1] # ":" THEN ParseFail
             ELSE LET r == ParseValue(ts, j + 2)
                  IN  IF ~r.ok \/ r.next > Len(ts) THEN ParseFail
                      ELSE LET acc2 == DictSet(acc, SubSeq(ts, i + 1, j - 1), r.val)
                           IN  IF ts[r.next] = "}"
                               THEN [ok |-> TRUE, val |-> PyObj(acc2), next |-> r.next + 1]
                               ELSE IF ts[r.next] = ","
                               THEN ParseMembers(ts, r.next + 1, acc2)
                               ELSE ParseFail

\* array elements up to the closing bracket, the first element starting at i
ParseElements(ts, i, acc) ==
    LET r == ParseValue(ts, i)
    IN  IF ~r.ok \/ r.next > Len(ts) THEN ParseFail
        ELSE IF ts[r.next] = "]"
        THEN [ok |-> TRUE, val |-> PyList(Append(acc, r.val)), next |-> r.next + 1]
        ELSE IF ts[r.next] = ","
        THEN ParseElements(ts, r.next + 1, Append(acc, r.val))
        ELSE ParseFail

\* json.loads(text): the value, or ok = FALSE where Python raises JSONDecodeError
Loads(ts) ==
    LET r == ParseValue(ts, 1)
    IN  IF r.ok /\ r.next = Len(ts) + 1 THEN [ok |-> TRUE, val |-> r.val] ELSE ParseFail


----------------------------------------------------------------------------
\* Dicts the code reads by key (messages, content blocks, tool calls) are
\* TLA+ records; a key the dict lacks is a field the record lacks.

\* d.get(key, default)
Get(d, key, default) == IF key \in DOMAIN d THEN d[key] ELSE default

\* isinstance(item, dict), for an item of a content list (the other items
\* are tagged Python values: a bare string, None)
IsDict(item) == "k" \notin DOMAIN item
IsBareStr(item) == "k" \in DOMAIN item /\ item.k = "str"

\* isinstance(item, dict) and item.get("type") == t
HasType(item, t) == IsDict(item) /\ "type" \in DOMAIN item /\ item.type = t

\* Python truthiness of a string (token sequence) and of an identifier
Truthy(s) == s # <<>>
TruthyId(id) == id # ""

\* m[key] = val on a dict used as a lookup table (a TLA+ function)
\* variant: an entry once written is kept
MapSet_KeepFirst(m, key, val) ==
    [x \in DOMAIN m \cup {key} |-> IF x \in DOMAIN m THEN m[x] ELSE val]

\* map[key] = val
MapSet(m, key, val) == [x \in DOMAIN m \cup {key} |-> IF x = key THEN val ELSE m[x]]
EmptyMap == [x \in {} |-> <<>>]
MapGet(m, key, default) == IF key \in DOMAIN m THEN m[key] ELSE default

RECURSIVE FoldCalls(_, _, _)
\* the loop "for call in calls: if id and name: map[id] = name"
FoldCalls(calls, i, m) ==
    IF i > Len(calls) THEN m
    ELSE FoldCalls(calls, i + 1,
            IF TruthyId(calls[i].id) /\ Truthy(calls[i].name)
            THEN MapSet(m, calls[i].id, calls[i].name) ELSE m)

Raised(exc) == [raised |-> TRUE, exc |-> exc]
Returned(v) == [raised |-> FALSE, value |-> v]

----------------------------------------------------------------------------
\* ClaudeToGeminiConverter.convert_messages

\* the tool_result branch calls re.search on the block's content, which
\* raises TypeError unless the content is a string
C2G_ItemRaises(item) ==
    HasType(item, "tool_result") /\ Get(item, "content", PyStr(<<>>)).k # "str"

C2G_FunctionResponseName(content) ==
    LET match == ReSearchObservation(content)
    IN  IF match.found THEN match.group ELSE Unknown

\* the parts one item of a content list appends (none for an unhandled item)
C2G_ItemParts(item) ==
    IF IsBareStr(item) THEN <<[text |-> item.s]>>
    ELSE IF HasType(item, "text") THEN <<[text |-> Get(item, "text", <<>>)]>>
    ELSE IF HasType(item, "image")
         THEN <<[inline_data |->
                  [mime_type |-> Get(Get(item, "source", <<>>), "media_type", <<"image/jpeg">>),
                   data |-> Get(Get(item, "source", <<>>), "data", <<>>)]]>>
    ELSE IF HasType(item, "tool_use")
         THEN <<[functionCall |->
                  [name |-> Get(item, "name", Unknown),
                   args |-> Get(item, "input", PyObj(<<>>))]]>>
    ELSE IF HasType(item, "tool_result")
         THEN LET content == Get(item, "content", PyStr(<<>>)).s
              IN  <<[functionResponse |->
                      [name |-> C2G_FunctionResponseName(content),
                       response |-> [result |-> content]]]>>
    ELSE <<>>

\* variant: every role becomes "user"
C2G_Role_AllUser(role) == "user"

C2G_Role(role) == IF role = "assistant" THEN "model" ELSE "user"

C2G_MessageRaises(message) ==
    LET role == Get(message, "role", "")
        content == Get(message, "content", PyStr(<<>>))
    IN  /\ role \notin {"tool", "system"}
        /\ content.k = "list"
        /\ \E i \in 1..Len(content.items) : C2G_ItemRaises(content.items[i])

\* the turns one message appends: none for a system message, else one
C2G_MessageTurns(message) ==
    LET role == Get(message, "role", "")
        content == Get(message, "content", PyStr(<<>>))
    IN  IF role = "tool"
        THEN <<[role |-> "model",
                parts |-> <<[text |-> <<"Tool Response (">> \o Get(message, "name", <<"tool">>)
                                        \o <<"):\n">> \o StrOf(content)]>>]>>
        ELSE IF role = "system" THEN <<>>
        ELSE <<[role |-> C2G_Role(role),
                parts |-> IF content.k = "str" THEN <<[text |-> content.s]>>
                          ELSE IF content.k = "list"
                          THEN Concat([i \in 1..Len(content.items) |-> C2G_ItemParts(content.items[i])])
                          ELSE <<[text |-> StrOf(content)]>>]>>

C2G_convert_messages(claude_messages) ==
    IF \E i \in 1..Len(claude_messages) : C2G_MessageRaises(claude_messages[i])
    THEN Raised("TypeError")
    ELSE Returned(Concat([i \in 1..Len(claude_messages) |-> C2G_MessageTurns(claude_messages[i])]))

----------------------------------------------------------------------------
\* ClaudeToOpenAIConverter.convert_messages

\* every tool_use block of the assistant messages, in input order
C2O_AssistantToolUses(claude_messages) ==
    Concat([i \in 1..Len(claude_messages) |->
        LET message == claude_messages[i]
            content == Get(message, "content", PyNone)
        IN  IF Get(message, "role", "") = "assistant" /\ content.k = "list"
            THEN LET idx == SelectIdx([n \in 1..Len(content.items) |-> HasType(content.items[n], "tool_use")], 1)
                 IN  [j \in 1..Len(idx) |->
                        [id |-> Get(content.items[idx[j]], "id", ""),
                         name |-> Get(content.items[idx[j]], "name", <<>>)]]
            ELSE <<>>])

C2O_tool_use_map(claude_messages) ==
    FoldCalls(C2O_AssistantToolUses(claude_messages), 1, EmptyMap)

\* the entry of openai_content_parts one item appends (none for tool blocks)
C2O_ItemParts(item) ==
    IF IsBareStr(item) THEN <<[type |-> "text", text |-> item.s]>>
    ELSE IF HasType(item, "text") THEN <<[type |-> "text", text |-> Get(item, "text", <<>>)]>>
    ELSE IF HasType(item, "image")
         THEN LET source == Get(item, "source", <<>>)
              IN  IF Get(source, "type", "") = "base64"
                  THEN <<[type |-> "image_url",
                          image_url |-> [url |-> <<"data:">> \o Get(source, "media_type", <<"image/jpeg">>)
                                                  \o <<";base64,">> \o Get(source, "data", <<>>)]]>>
                  ELSE IF Get(source, "type", "") = "url"
                  THEN <<[type |-> "image_url", image_url |-> [url |-> Get(source, "url", <<>>)]]>>
                  ELSE <<>>
    ELSE <<>>

C2O_Content(content) ==
    IF content.k = "str" THEN content
    ELSE IF content.k = "list"
    THEN LET openai_content_parts ==
                Concat([i \in 1..Len(content.items) |-> C2O_ItemParts(content.items[i])])
         IN  IF openai_content_parts # <<>> THEN PyList(openai_content_parts)
             ELSE PyStr(StrOf(content))
    ELSE PyStr(StrOf(content))

\* variant: one assistant message per turn, holding all of the turn's calls
C2O_ToolCallMessages_Batched(content) ==
    LET items == content.items
        tool_uses == SelectIdx([n \in 1..Len(items) |-> HasType(items[n], "tool_use")], 1)
    IN  <<[role |-> "assistant",
           content |-> PyNone,
           tool_calls |-> [j \in 1..Len(tool_uses) |->
                             [id |-> Get(items[tool_uses[j]], "id", ""),
                              type |-> "function",
                              function |->
                                [name |-> Get(items[tool_uses[j]], "name", <<>>),
                                 arguments |-> PyStr(Dumps(Get(items[tool_uses[j]], "input", PyObj(<<>>))))]]]]>>

\* one assistant message per tool_use block, each with one tool_calls entry
C2O_ToolCallMessages(content) ==
    LET items == content.items
        tool_uses == SelectIdx([n \in 1..Len(items) |-> HasType(items[n], "tool_use")], 1)
        texts == SelectIdx([n \in 1..Len(items) |-> HasType(items[n], "text")], 1)
        text_content == Join(<<" ">>, [j \in 1..Len(texts) |-> Get(items[texts[j]], "text", <<>>)])
    IN  [j \in 1..Len(tool_uses) |->
            [role |-> "assistant",
             content |-> IF text_content # <<>> THEN PyStr(text_content) ELSE PyNone,
             tool_calls |-> <<[id |-> Get(items[tool_uses[j]], "id", ""),
                               type |-> "function",
                               function |->
                                 [name |-> Get(items[tool_uses[j]], "name", <<>>),
                                  arguments |-> PyStr(Dumps(Get(items[tool_uses[j]], "input", PyObj(<<>>))))]]>>]]

\* one tool message per tool_result block
C2O_ToolMessages(content, tool_use_map) ==
    LET items == content.items
        tool_results == SelectIdx([n \in 1..Len(items) |-> HasType(items[n], "tool_result")], 1)
    IN  [j \in 1..Len(tool_results) |->
            LET tool_use_id == Get(items[tool_results[j]], "tool_use_id", "")
            IN  [role |-> "tool",
                 tool_call_id |-> tool_use_id,
                 name |-> MapGet(tool_use_map, tool_use_id, Unknown),
                 content |-> Get(items[tool_results[j]], "content", PyStr(<<>>))]]

C2O_MessageOut(message, tool_use_map) ==
    LET role == Get(message, "role", "")
        content == Get(message, "content", PyStr(<<>>))
        hasUses == content.k = "list" /\ \E i \in 1..Len(content.items) : HasType(content.items[i], "tool_use")
        hasResults == content.k = "list" /\ \E i \in 1..Len(content.items) : HasType(content.items[i], "tool_result")
    IN  IF hasUses /\ role = "assistant" THEN C2O_ToolCallMessages(content)
        ELSE IF hasResults THEN C2O_ToolMessages(content, tool_use_map)
        ELSE <<[role |-> role, content |-> C2O_Content(content)]>>

\* variant: the tool messages are gathered after the other messages
C2O_convert_messages_ResultsLast(claude_messages) ==
    LET tool_use_map == C2O_tool_use_map(claude_messages)
        all == Concat([i \in 1..Len(claude_messages) |->
                          C2O_MessageOut(claude_messages[i], tool_use_map)])
    IN  Returned(SelectSeq(all, LAMBDA m : m.role # "tool")
                 \o SelectSeq(all, LAMBDA m : m.role = "tool"))

\* variant: each turn is converted with the map of the calls up to that turn
C2O_convert_messages_MapSoFar(claude_messages) ==
    Returned(Concat([i \in 1..Len(claude_messages) |->
                        C2O_MessageOut(claude_messages[i],
                                       C2O_tool_use_map(SubSeq(claude_messages, 1, i)))]))

C2O_convert_messages(claude_messages) ==
    LET tool_use_map == C2O_tool_use_map(claude_messages)
    IN  Returned(Concat([i \in 1..Len(claude_messages) |->
                            C2O_MessageOut(claude_messages[i], tool_use_map)]))


----------------------------------------------------------------------------
\* OpenAIToGeminiConverter.convert_messages

\* "tool_calls" in message and message["tool_calls"]
O2G_HasToolCalls(message) == "tool_calls" \in DOMAIN message /\ message.tool_calls # <<>>

\* every tool call of every message, in input order
O2G_AllToolCalls(openai_messages) ==
    Concat([i \in 1..Len(openai_messages) |->
        IF O2G_HasToolCalls(openai_messages[i])
        THEN [j \in 1..Len(openai_messages[i].tool_calls) |->
                [id |-> Get(openai_messages[i].tool_calls[j], "id", ""),
                 name |-> Get(Get(openai_messages[i].tool_calls[j], "function", <<>>), "name", <<>>)]]
        ELSE <<>>])

O2G_tool_call_id_to_name(openai_messages) ==
    FoldCalls(O2G_AllToolCalls(openai_messages), 1, EmptyMap)

\* the last system message with string content, if any (each one overwrites)
O2G_system_instruction(openai_messages) ==
    LET idx == SelectIdx([n \in 1..Len(openai_messages) |-> Get(openai_messages[n], "role", "") = "system" /\ Get(openai_messages[n], "content", PyStr(<<>>)).k = "str"], 1)
    IN  IF idx = <<>> THEN PyNone
        ELSE [parts |-> <<[text |-> Get(openai_messages[idx[Len(idx)]], "content", PyStr(<<>>)).s]>>]

O2G_Role(role) == IF role = "assistant" THEN "model" ELSE "user"

\* variant: a string that does not parse is kept as it is
O2G_Args_NoFallback(function_data) ==
    LET args == Get(function_data, "arguments", PyStr(<<"{", "}">>))
    IN  IF args.k = "str"
        THEN LET r == Loads(args.s) IN IF r.ok THEN r.val ELSE args
        ELSE args

\* args of one tool call: a string is parsed, {} on any failure
O2G_Args(function_data) ==
    LET args == Get(function_data, "arguments", PyStr(<<"{", "}">>))
    IN  IF args.k = "str"
        THEN LET r == Loads(args.s) IN IF r.ok THEN r.val ELSE PyObj(<<>>)
        ELSE args

O2G_ToolCallParts(message) ==
    [j \in 1..Len(message.tool_calls) |->
        LET function_data == Get(message.tool_calls[j], "function", <<>>)
        IN  [functionCall |-> [name |-> Get(function_data, "name", <<>>),
                               args |-> O2G_Args(function_data)]]]

O2G_ToolResponseName(message, tool_call_id_to_name) ==
    LET tool_call_id == Get(message, "tool_call_id", "")
        tool_name == Get(message, "name", <<>>)
    IN  IF ~Truthy(tool_name) /\ TruthyId(tool_call_id)
        THEN MapGet(tool_call_id_to_name, tool_call_id, <<>>)
        ELSE tool_name

RECURSIVE SemiPos(_, _)
\* [^;]+ is greedy: the first position >= i whose token starts with ';', or Len+1
SemiPos(url, i) ==
    IF i > Len(url) \/ url[i] \in {";base64,", ";"} THEN i ELSE SemiPos(url, i + 1)

\* re.match of data:([^;]+);base64,(.+) on a URL that starts with "data:"
O2G_DataUrlMatch(url) ==
    LET j == SemiPos(url, 2)
    IN  IF j > 2 /\ j < Len(url) /\ url[j] = ";base64," /\ url[j + 1] # "\n"
        THEN [found |-> TRUE, mime_type |-> SubSeq(url, 2, j - 1),
              base64_data |-> LET nl == SelectIdx([n \in 1..Len(url) |-> url[n] = "\n"], 1)
                              IN  SubSeq(url, j + 1, IF nl = <<>> THEN Len(url) ELSE nl[1] - 1)]
        ELSE [found |-> FALSE]

O2G_ItemParts(item) ==
    IF IsBareStr(item) THEN <<[text |-> item.s]>>
    ELSE IF HasType(item, "text") THEN <<[text |-> Get(item, "text", <<>>)]>>
    ELSE IF HasType(item, "image_url")
         THEN LET url == Get(Get(item, "image_url", <<>>), "url", <<>>)
              IN  IF url # <<>> /\ url[1] = "data:"
                  THEN LET match == O2G_DataUrlMatch(url)
                       IN  IF match.found
                           THEN <<[inline_data |-> [mime_type |-> match.mime_type,
                                                    data |-> match.base64_data]]>>
                           ELSE <<>>
                  ELSE <<[text |-> <<"[Image: ">> \o url \o <<"]">>]>>
    ELSE <<>>

O2G_ContentParts(content) ==
    IF content.k = "str" THEN <<[text |-> content.s]>>
    ELSE IF content.k = "list"
    THEN Concat([i \in 1..Len(content.items) |-> O2G_ItemParts(content.items[i])])
    ELSE <<[text |-> StrOf(content)]>>

\* the turns one message appends
O2G_MessageTurns(message, tool_call_id_to_name) ==
    LET role == Get(message, "role", "")
        content == Get(message, "content", PyStr(<<>>))
    IN  IF role = "system" THEN <<>>
        ELSE IF O2G_HasToolCalls(message)
        THEN <<[role |-> O2G_Role(role), parts |-> O2G_ToolCallParts(message)]>>
        ELSE IF role = "tool"
        THEN <<[role |-> "user",
                parts |-> <<[functionResponse |->
                              [name |-> O2G_ToolResponseName(message, tool_call_id_to_name),
                               response |-> [result |-> StrOf(content)]]]>>]>>
        ELSE LET parts == O2G_ContentParts(content)
             IN  IF parts # <<>> THEN <<[role |-> O2G_Role(role), parts |-> parts]>> ELSE <<>>

\* returns (gemini_contents, system_instruction)
O2G_convert_messages(openai_messages) ==
    LET tool_call_id_to_name == O2G_tool_call_id_to_name(openai_messages)
    IN  Returned([contents |-> Concat([i \in 1..Len(openai_messages) |->
                                  O2G_MessageTurns(openai_messages[i], tool_call_id_to_name)]),
                  system_instruction |-> O2G_system_instruction(openai_messages)])


----------------------------------------------------------------------------
\* Tool declarations.  A parameter schema is a Python dict that the caller's
\* payload and the converter's output may share by reference.  A schema slot
\* is [ref |-> a] (the caller's dict at heap address a), [val |-> d] (a dict
\* the call created: a literal {} or a copy) or PyNone (JSON null).

EmptyDict == <<>>
IsNoneSlot(slot) == "k" \in DOMAIN slot
IsRef(slot) == "ref" \in DOMAIN slot
SlotDict(slot, h) == IF IsRef(slot) THEN h[slot.ref] ELSE slot.val

\* copy.deepcopy of a slot: the copy owns a dict equal to the original
DeepCopySlot(slot, h) == IF IsRef(slot) THEN [val |-> h[slot.ref]] ELSE slot

DeepCopyFunc(func, h) ==
    IF "parameters" \in DOMAIN func
    THEN [func EXCEPT !.parameters = DeepCopySlot(func.parameters, h)] ELSE func

\* variant: no copy is made, the request's own dicts are patched
DeepCopyGemini_Alias(request_data, h) == request_data

\* copy.deepcopy(request_data) of a Gemini-format request
DeepCopyGemini(request_data, h) ==
    IF "tools" \in DOMAIN request_data
    THEN [request_data EXCEPT !.tools =
            [t \in 1..Len(request_data.tools) |->
                [request_data.tools[t] EXCEPT !.functionDeclarations =
                    [f \in 1..Len(request_data.tools[t].functionDeclarations) |->
                        DeepCopyFunc(request_data.tools[t].functionDeclarations[f], h)]]]]
    ELSE request_data

\* copy.deepcopy(request_data) of an OpenAI-format request
DeepCopyOpenAI(request_data, h) ==
    IF "tools" \in DOMAIN request_data
    THEN [request_data EXCEPT !.tools =
            [t \in 1..Len(request_data.tools) |->
                IF "function" \in DOMAIN request_data.tools[t]
                THEN [request_data.tools[t] EXCEPT !.function = DeepCopyFunc(request_data.tools[t].function, h)]
                ELSE request_data.tools[t]]]
    ELSE request_data

InList(x, list) == \E i \in 1..Len(list) : list[i] = x
\* [to if param == from else param for param in list]
ReplaceIn(list, from, to) == [i \in 1..Len(list) |-> IF list[i] = from THEN to ELSE list[i]]
\* [param for param in list if param != x]
RemoveFrom(list, x) == SelectSeq(list, LAMBDA param : param # x)

NamedTools == {"segment_anything", "Pira_image2image", "gemini_edit", "outpaint"}

\* the images-type patch of gemini_edit
FixImagesType(p) ==
    IF /\ "properties" \in DOMAIN p
       /\ "images" \in DOMAIN p.properties
       /\ "type" \in DOMAIN p.properties.images
       /\ p.properties.images.type.k = "list"
    THEN [p EXCEPT !.properties.images.type = PyStr(<<"array">>)]
    ELSE p

\* assignments through func['parameters'] write the dict the slot names:
\* the caller's dict when the slot is a reference
WriteSlot(slot, h, d) ==
    IF IsRef(slot) THEN [slot |-> slot, heap |-> [h EXCEPT ![slot.ref] = d]]
    ELSE [slot |-> [val |-> d], heap |-> h]

\* the chain of name tests of ClaudeToGeminiConverter.fix_request_issues on one declaration's
\* parameters dict p
C2G_PatchSchema(name, p) ==
    IF name = "segment_anything"
    THEN IF "required" \in DOMAIN p /\ InList("object", p.required)
         THEN [p EXCEPT !.required = ReplaceIn(p.required, "object", "object_english_name")]
         ELSE p
    ELSE IF name = "Pira_image2image"
    THEN IF "required" \in DOMAIN p /\ InList("cfg", p.required)
         THEN [p EXCEPT !.required = RemoveFrom(p.required, "cfg")]
         ELSE p
    ELSE IF name = "gemini_edit"
    THEN FixImagesType(IF "required" \in DOMAIN p /\ InList("image", p.required)
                       THEN [p EXCEPT !.required = ReplaceIn(p.required, "image", "images")]
                       ELSE p)
    ELSE IF name = "outpaint"
    THEN IF "required" \in DOMAIN p /\ InList("prompt", p.required)
         THEN [p EXCEPT !.required = ReplaceIn(p.required, "prompt", "english_prompt")]
         ELSE p
    ELSE p

\* the chain of name tests of OpenAIToGeminiConverter.fix_request_issues on one declaration's
\* parameters dict p
O2G_PatchSchema(name, p) ==
    IF name = "segment_anything"
    THEN IF "required" \in DOMAIN p /\ InList("object", p.required)
         THEN [p EXCEPT !.required = ReplaceIn(p.required, "object", "object_english_name")]
         ELSE p
    ELSE IF name = "Pira_image2image"
    THEN IF "required" \in DOMAIN p /\ InList("cfg", p.required)
         THEN [p EXCEPT !.required = RemoveFrom(p.required, "cfg")]
         ELSE p
    ELSE IF name = "gemini_edit"
    THEN FixImagesType(IF "required" \in DOMAIN p /\ InList("image", p.required)
                       THEN [p EXCEPT !.required = ReplaceIn(p.required, "image", "images")]
                       ELSE p)
    ELSE IF name = "outpaint"
    THEN IF "required" \in DOMAIN p /\ InList("prompt", p.required)
         THEN [p EXCEPT !.required = ReplaceIn(p.required, "prompt", "english_prompt")]
         ELSE p
    ELSE p

\* variant: the caller's copy without the Pira_image2image branch
Caller_PatchSchema_KeepsCfg(name, p) ==
    IF name = "Pira_image2image" THEN p ELSE C2G_PatchSchema(name, p)

\* the chain of name tests of GeminiAPICaller.fix_request_issues on one declaration's
\* parameters dict p
Caller_PatchSchema(name, p) ==
    IF name = "segment_anything"
    THEN IF "required" \in DOMAIN p /\ InList("object", p.required)
         THEN [p EXCEPT !.required = ReplaceIn(p.required, "object", "object_english_name")]
         ELSE p
    ELSE IF name = "Pira_image2image"
    THEN IF "required" \in DOMAIN p /\ InList("cfg", p.required)
         THEN [p EXCEPT !.required = RemoveFrom(p.required, "cfg")]
         ELSE p
    ELSE IF name = "gemini_edit"
    THEN FixImagesType(IF "required" \in DOMAIN p /\ InList("image", p.required)
                       THEN [p EXCEPT !.required = ReplaceIn(p.required, "image", "images")]
                       ELSE p)
    ELSE IF name = "outpaint"
    THEN IF "required" \in DOMAIN p /\ InList("prompt", p.required)
         THEN [p EXCEPT !.required = ReplaceIn(p.required, "prompt", "english_prompt")]
         ELSE p
    ELSE p

\* variant: the stale cfg entry is removed whatever the declaration's name
C2O_PatchSchema_AnyName(name, p) ==
    IF "required" \in DOMAIN p /\ InList("cfg", p.required)
    THEN [p EXCEPT !.required = RemoveFrom(p.required, "cfg")]
    ELSE p

\* the chain of name tests of ClaudeToOpenAIConverter.fix_request_issues on one declaration's
\* parameters dict p
C2O_PatchSchema(name, p) ==
    IF name = "segment_anything"
    THEN IF "required" \in DOMAIN p /\ InList("object", p.required)
         THEN [p EXCEPT !.required = ReplaceIn(p.required, "object", "object_english_name")]
         ELSE p
    ELSE IF name = "Pira_image2image"
    THEN IF "required" \in DOMAIN p /\ InList("cfg", p.required)
         THEN [p EXCEPT !.required = RemoveFrom(p.required, "cfg")]
         ELSE p
    ELSE IF name = "gemini_edit"
    THEN FixImagesType(IF "required" \in DOMAIN p /\ InList("image", p.required)
                       THEN [p EXCEPT !.required = ReplaceIn(p.required, "image", "images")]
                       ELSE p)
    ELSE IF name = "outpaint"
    THEN IF "required" \in DOMAIN p /\ InList("prompt", p.required)
         THEN [p EXCEPT !.required = ReplaceIn(p.required, "prompt", "english_prompt")]
         ELSE p
    ELSE p

\* the chain of the copy of fix_request_issues that runs
PatchSchema(copy, name, p) ==
    CASE copy = "c2g" -> C2G_PatchSchema(name, p)
      [] copy = "o2g" -> O2G_PatchSchema(name, p)
      [] copy = "caller" -> Caller_PatchSchema(name, p)
      [] copy = "c2o" -> C2O_PatchSchema(name, p)

RECURSIVE PatchFuncs(_, _, _, _, _)
\* the loop over one functionDeclarations list, in the given copy of
\* fix_request_issues.  Returns the list and the heap.
PatchFuncs(funcs, i, h, copy, acc) ==
    IF i > Len(funcs) THEN [funcs |-> acc, heap |-> h]
    ELSE LET func == funcs[i]
         IN  IF "parameters" \in DOMAIN func /\ ~IsNoneSlot(func.parameters)
             THEN LET w == WriteSlot(func.parameters, h,
                                     PatchSchema(copy, Get(func, "name", ""), SlotDict(func.parameters, h)))
                  IN  PatchFuncs(funcs, i + 1, w.heap, copy,
                                 Append(acc, [func EXCEPT !.parameters = w.slot]))
             ELSE PatchFuncs(funcs, i + 1, h, copy, Append(acc, func))

RECURSIVE PatchWrappers(_, _, _, _, _)
\* the loop over request["tools"] of a Gemini-format request
PatchWrappers(wrappers, i, h, copy, acc) ==
    IF i > Len(wrappers) THEN [tools |-> acc, heap |-> h]
    ELSE IF "functionDeclarations" \in DOMAIN wrappers[i]
    THEN LET r == PatchFuncs(wrappers[i].functionDeclarations, 1, h, copy, <<>>)
         IN  PatchWrappers(wrappers, i + 1, r.heap, copy,
                           Append(acc, [wrappers[i] EXCEPT !.functionDeclarations = r.funcs]))
    ELSE PatchWrappers(wrappers, i + 1, h, copy, Append(acc, wrappers[i]))

\* the first declaration on which the Gemini-shaped pass raises: a named tool
\* without a parameters key (KeyError) or with parameters null (TypeError)
GeminiFuncExc(func) ==
    IF Get(func, "name", "") \notin NamedTools THEN "none"
    ELSE IF "parameters" \notin DOMAIN func THEN "KeyError"
    ELSE IF IsNoneSlot(func.parameters) THEN "TypeError"
    ELSE "none"

GeminiAllFuncs(request_data) ==
    IF "tools" \in DOMAIN request_data
    THEN Concat([t \in 1..Len(request_data.tools) |->
                    Get(request_data.tools[t], "functionDeclarations", <<>>)])
    ELSE <<>>

GeminiFixExc(request_data) ==
    LET funcs == GeminiAllFuncs(request_data)
        bad == SelectIdx([n \in 1..Len(funcs) |-> GeminiFuncExc(funcs[n]) # "none"], 1)
    IN  IF bad = <<>> THEN "none" ELSE GeminiFuncExc(funcs[bad[1]])

\* The filter of line 256 with its condition dropped: every turn is kept.
HasParts_KeepAll(content) == TRUE

\* 'parts' in content and content['parts'] and len(content['parts']) > 0
HasParts(content) == "parts" \in DOMAIN content /\ content.parts # <<>>

ReturnedWith(v, h) == [raised |-> FALSE, value |-> v, heap |-> h]
RaisedWith(exc, h) == [raised |-> TRUE, exc |-> exc, heap |-> h]


----------------------------------------------------------------------------
\* fix_request_issues, one definition per copy in the source

C2G_fix_request_issues(request_data, h) ==
    LET fixed_data == DeepCopyGemini(request_data, h)
        filtered == IF "contents" \in DOMAIN fixed_data
                    THEN [fixed_data EXCEPT !.contents = SelectSeq(fixed_data.contents, HasParts)]
                    ELSE fixed_data
        exc == GeminiFixExc(filtered)
    IN  IF exc # "none" THEN RaisedWith(exc, h)
        ELSE IF "tools" \in DOMAIN filtered
        THEN LET r == PatchWrappers(filtered.tools, 1, h, "c2g", <<>>)
             IN  ReturnedWith([filtered EXCEPT !.tools = r.tools], r.heap)
        ELSE ReturnedWith(filtered, h)

O2G_fix_request_issues(request_data, h) ==
    LET fixed_data == DeepCopyGemini(request_data, h)
        filtered == IF "contents" \in DOMAIN fixed_data
                    THEN [fixed_data EXCEPT !.contents = SelectSeq(fixed_data.contents, HasParts)]
                    ELSE fixed_data
        exc == GeminiFixExc(filtered)
    IN  IF exc # "none" THEN RaisedWith(exc, h)
        ELSE IF "tools" \in DOMAIN filtered
        THEN LET r == PatchWrappers(filtered.tools, 1, h, "o2g", <<>>)
             IN  ReturnedWith([filtered EXCEPT !.tools = r.tools], r.heap)
        ELSE ReturnedWith(filtered, h)

Caller_fix_request_issues(request_data, h) ==
    LET fixed_data == DeepCopyGemini(request_data, h)
        filtered == IF "contents" \in DOMAIN fixed_data
                    THEN [fixed_data EXCEPT !.contents = SelectSeq(fixed_data.contents, HasParts)]
                    ELSE fixed_data
        exc == GeminiFixExc(filtered)
    IN  IF exc # "none" THEN RaisedWith(exc, h)
        ELSE IF "tools" \in DOMAIN filtered
        THEN LET r == PatchWrappers(filtered.tools, 1, h, "caller", <<>>)
             IN  ReturnedWith([filtered EXCEPT !.tools = r.tools], r.heap)
        ELSE ReturnedWith(filtered, h)

\* the OpenAI-shaped copy tests 'parameters' in func before every patch, so
\* it raises only on a named tool whose parameters is null (TypeError)
C2O_ToolExc(tool) ==
    IF /\ "function" \in DOMAIN tool
       /\ Get(tool.function, "name", "") \in NamedTools
       /\ "parameters" \in DOMAIN tool.function
       /\ IsNoneSlot(tool.function.parameters)
    THEN "TypeError" ELSE "none"

RECURSIVE C2O_PatchTools(_, _, _, _)
\* the loop over request["tools"] of an OpenAI-format request
C2O_PatchTools(tls, i, h, acc) ==
    IF i > Len(tls) THEN [tools |-> acc, heap |-> h]
    ELSE IF "function" \in DOMAIN tls[i]
    THEN LET r == PatchFuncs(<<tls[i].function>>, 1, h, "c2o", <<>>)
         IN  C2O_PatchTools(tls, i + 1, r.heap, Append(acc, [tls[i] EXCEPT !.function = r.funcs[1]]))
    ELSE C2O_PatchTools(tls, i + 1, h, Append(acc, tls[i]))

C2O_fix_request_issues(request_data, h) ==
    LET fixed_data == DeepCopyOpenAI(request_data, h)
        tls == Get(fixed_data, "tools", <<>>)
        bad == SelectIdx([n \in 1..Len(tls) |-> C2O_ToolExc(tls[n]) # "none"], 1)
    IN  IF bad # <<>> THEN RaisedWith("TypeError", h)
        ELSE IF "tools" \in DOMAIN fixed_data
        THEN LET r == C2O_PatchTools(fixed_data.tools, 1, h, <<>>)
             IN  ReturnedWith([fixed_data EXCEPT !.tools = r.tools], r.heap)
        ELSE ReturnedWith(fixed_data, h)

----------------------------------------------------------------------------
\* convert_tools

C2G_convert_tools(claude_tools) ==
    [i \in 1..Len(claude_tools) |->
        [name |-> Get(claude_tools[i], "name", ""),
         description |-> Get(claude_tools[i], "description", ""),
         parameters |-> Get(claude_tools[i], "input_schema", [val |-> EmptyDict])]]

C2O_convert_tools(claude_tools) ==
    [i \in 1..Len(claude_tools) |->
        [type |-> "function",
         function |->
            [name |-> Get(claude_tools[i], "name", ""),
             description |-> Get(claude_tools[i], "description", ""),
             parameters |-> Get(claude_tools[i], "input_schema", [val |-> EmptyDict])]]]

\* str(val) of an enum value
EnumStr(val) == IF val.k = "num" THEN PyStr(<<NumTok(val.n)>>)
                ELSE IF val.k = "null" THEN PyStr(<<"None">>)
                ELSE val

RECURSIVE convert_enum_values(_)
\* OpenAIToGeminiConverter.convert_enum_values on a dict: a deep copy with
\* every enum list's values turned into strings
convert_enum_values(schema) ==
    LET s1 == IF "enum" \in DOMAIN schema
              THEN [schema EXCEPT !.enum = [i \in 1..Len(schema.enum) |-> EnumStr(schema.enum[i])]]
              ELSE schema
        s2 == IF "properties" \in DOMAIN s1
              THEN [s1 EXCEPT !.properties =
                        [key \in DOMAIN s1.properties |-> convert_enum_values(s1.properties[key])]]
              ELSE s1
        s3 == IF "items" \in DOMAIN s2
              THEN [s2 EXCEPT !.items = convert_enum_values(s2.items)]
              ELSE s2
    IN  IF "additionalProperties" \in DOMAIN s3
        THEN [s3 EXCEPT !.additionalProperties = convert_enum_values(s3.additionalProperties)]
        ELSE s3

\* convert_enum_values on a schema slot: a non-dict is returned as it is
O2G_ConvertSlot(slot, h) ==
    IF IsNoneSlot(slot) THEN slot ELSE [val |-> convert_enum_values(SlotDict(slot, h))]

O2G_convert_tools(openai_tools, h) ==
    LET idx == SelectIdx([n \in 1..Len(openai_tools) |-> Get(openai_tools[n], "type", "") = "function"], 1)
        function_declarations ==
            [j \in 1..Len(idx) |->
                LET function_data == Get(openai_tools[idx[j]], "function", <<>>)
                IN  [name |-> Get(function_data, "name", ""),
                     description |-> Get(function_data, "description", ""),
                     parameters |-> O2G_ConvertSlot(Get(function_data, "parameters", [val |-> EmptyDict]), h)]]
    IN  IF function_declarations # <<>>
        THEN <<[functionDeclarations |-> function_declarations]>>
        ELSE <<>>

----------------------------------------------------------------------------
\* convert_request

IsSystem(msg) == Get(msg, "role", "") = "system"

\* variant: only the last system turn's text is kept
C2G_system_text_Last(system_messages) ==
    Get(system_messages[Len(system_messages)], "content", PyStr(<<>>)).s

\* "\n".join([msg.get("content", "") for msg in system_messages])
C2G_system_text(system_messages) ==
    Join(<<"\n">>, [i \in 1..Len(system_messages) |->
                       Get(system_messages[i], "content", PyStr(<<>>)).s])

C2G_convert_request(claude_request, h) ==
    LET msgs == Get(claude_request, "messages", <<>>)
        tls == Get(claude_request, "tools", <<>>)
        system_messages == SelectSeq(msgs, IsSystem)
        non_system_messages == SelectSeq(msgs, LAMBDA m : ~IsSystem(m))
        converted == C2G_convert_messages(non_system_messages)
        \* "\n".join raises TypeError on an item that is not a string
        joinRaises == \E i \in 1..Len(system_messages) :
                          Get(system_messages[i], "content", PyStr(<<>>)).k # "str"
    IN  IF converted.raised THEN RaisedWith(converted.exc, h)
        ELSE IF joinRaises THEN RaisedWith("TypeError", h)
        ELSE LET system_text ==
                     IF system_messages # <<>> THEN C2G_system_text(system_messages) ELSE <<>>
                 gemini_request ==
                     [contents |-> converted.value]
                     @@ (IF system_messages # <<>>
                         THEN [systemInstruction |-> [parts |-> <<[text |-> system_text]>>]]
                         ELSE <<>>)
                     @@ (IF tls # <<>>
                         THEN [tools |-> <<[functionDeclarations |-> C2G_convert_tools(tls)]>>]
                         ELSE <<>>)
             IN  C2G_fix_request_issues(gemini_request, h)

O2G_convert_request(openai_request, h) ==
    LET msgs == Get(openai_request, "messages", <<>>)
        tls == Get(openai_request, "tools", <<>>)
        converted == O2G_convert_messages(msgs).value
        gemini_tools == O2G_convert_tools(tls, h)
        gemini_request ==
            [contents |-> converted.contents]
            @@ (IF converted.system_instruction # PyNone
                THEN [systemInstruction |-> converted.system_instruction]
                ELSE <<>>)
            @@ (IF tls # <<>> /\ gemini_tools # <<>> THEN [tools |-> gemini_tools] ELSE <<>>)
    IN  O2G_fix_request_issues(gemini_request, h)

\* variant: the tools field is written whether or not there are tools
C2O_convert_request_AlwaysTools(claude_request, h) ==
    LET msgs == Get(claude_request, "messages", <<>>)
        tls == Get(claude_request, "tools", <<>>)
    IN  C2O_fix_request_issues([messages |-> C2O_convert_messages(msgs).value,
                                tools |-> C2O_convert_tools(tls)], h)

\* variant: the messages key is read by subscript, not with a default
C2O_convert_request_MessagesRequired(claude_request, h) ==
    IF "messages" \notin DOMAIN claude_request THEN RaisedWith("KeyError", h)
    ELSE LET msgs == claude_request.messages
             tls == Get(claude_request, "tools", <<>>)
             openai_request ==
                 [messages |-> C2O_convert_messages(msgs).value]
                 @@ (IF tls # <<>> THEN [tools |-> C2O_convert_tools(tls)] ELSE <<>>)
         IN  C2O_fix_request_issues(openai_request, h)

C2O_convert_request(claude_request, h) ==
    LET msgs == Get(claude_request, "messages", <<>>)
        tls == Get(claude_request, "tools", <<>>)
        openai_request ==
            [messages |-> C2O_convert_messages(msgs).value]
            @@ (IF tls # <<>> THEN [tools |-> C2O_convert_tools(tls)] ELSE <<>>)
    IN  C2O_fix_request_issues(openai_request, h)

\* convert_request of the direction, on a payload p
ConvertBy(dir, p, h) ==
    CASE dir = "c2g" -> C2G_convert_request(p, h)
      [] dir = "c2o" -> C2O_convert_request(p, h)
      [] dir = "o2g" -> O2G_convert_request(p, h)


----------------------------------------------------------------------------
\* The caller: it assembles a payload turn by turn, then calls one
\* convert_request on it.

MaxMsgs == 3

TextBlock(s) == [type |-> "text", text |-> s]
ToolUse(id, name, input) == [type |-> "tool_use", id |-> id, name |-> name, input |-> input]
ToolResult(id, content) == [type |-> "tool_result", tool_use_id |-> id, content |-> content]
Msg(role, content) == [role |-> role, content |-> content]

ArgsX1 == PyObj(<<[key |-> <<"x">>, val |-> PyNum(1)]>>)
ArgsYs == PyObj(<<[key |-> <<"y">>, val |-> PyStr(<<"s">>)], [key |-> <<"x">>, val |-> PyNone]>>)

\* the turns a Claude-format conversation is drawn from
ClaudeMessages ==
    { Msg("user", PyStr(<<"a">>)),
      Msg("assistant", PyStr(<<"b">>)),
      Msg("system", PyStr(<<"A">>)),
      Msg("system", PyStr(<<"B">>)),
      Msg("system", PyStr(<<>>)),
      Msg("system", PyList(<<TextBlock(<<"A">>)>>)),
      Msg("tool", PyStr(<<"r">>)),
      Msg("critic", PyStr(<<"a">>)),
      Msg("user", PyList(<<>>)),
      Msg("assistant", PyList(<<TextBlock(<<"a">>), ToolUse("c1", <<"f">>, ArgsX1),
                                ToolUse("c2", <<"g">>, PyObj(<<>>))>>)),
      Msg("assistant", PyList(<<ToolUse("c1", <<"g">>, ArgsYs)>>)),
      Msg("assistant", PyList(<<[type |-> "tool_use", input |-> PyObj(<<>>)],
                                ToolUse("", <<"f">>, PyObj(<<>>)),
                                ToolUse("c3", <<>>, PyObj(<<>>))>>)),
      Msg("user", PyList(<<ToolResult("c1", PyStr(<<"r">>))>>)),
      Msg("user", PyList(<<TextBlock(<<"a">>),
                           ToolResult("c2", PyStr(<<ObsWords, Tick, "f", Tick, "a">>))>>)),
      Msg("user", PyList(<<ToolResult("c3", PyStr(<<>>)),
                           [type |-> "tool_result", content |-> PyStr(<<"r">>)],
                           ToolResult("", PyStr(<<ObsWords, Tick, Tick>>))>>)),
      Msg("user", PyList(<<ToolResult("c1", PyNone)>>)),
      Msg("user", PyList(<<ToolUse("c2", <<"f">>, PyObj(<<>>)), [type |-> "thinking"]>>)) }

ToolCall(id, name, arguments) ==
    [id |-> id, type |-> "function", function |-> [name |-> name, arguments |-> arguments]]

\* the turns an OpenAI-format conversation is drawn from
OpenAIMessages ==
    { Msg("user", PyStr(<<"a">>)),
      Msg("assistant", PyStr(<<"b">>)),
      Msg("system", PyStr(<<"A">>)),
      Msg("system", PyStr(<<"B">>)),
      Msg("system", PyStr(<<>>)),
      Msg("system", PyList(<<TextBlock(<<"A">>)>>)),
      Msg("critic", PyStr(<<"a">>)),
      Msg("user", PyList(<<>>)),
      Msg("user", PyList(<<TextBlock(<<"a">>),
                           [type |-> "image_url", image_url |-> [url |-> <<"http://u">>]]>>)),
      [role |-> "assistant", content |-> PyNone,
       tool_calls |-> <<ToolCall("c1", <<"f">>, PyStr(Dumps(ArgsX1))),
                        ToolCall("c2", <<"g">>, PyStr(<<"{", "not json">>))>>],
      [role |-> "assistant", content |-> PyStr(<<"t">>),
       tool_calls |-> <<ToolCall("c1", <<"g">>, ArgsYs)>>],
      [role |-> "assistant", content |-> PyNone,
       tool_calls |-> <<ToolCall("", <<"f">>, PyStr(<<"1">>)), ToolCall("c3", <<>>, PyStr(<<"{", "}">>))>>],
      [role |-> "tool", tool_call_id |-> "c1", content |-> PyStr(<<"r">>)],
      [role |-> "tool", tool_call_id |-> "c2", name |-> <<"h">>, content |-> PyStr(<<"r">>)],
      [role |-> "tool", tool_call_id |-> "c3", content |-> PyStr(<<"r">>)],
      [role |-> "tool", tool_call_id |-> "", content |-> PyStr(<<"r">>)],
      [role |-> "tool", content |-> PyNone] }

NoOut == [dir |-> "none"]

Payload == [messages |-> messages, tools |-> tools]

Init ==
    /\ fmt \in {"claude", "openai"}
    /\ messages = <<>>
    /\ tools = <<>>
    /\ heap = <<>>
    /\ pc = "build"
    /\ out = NoOut

AddClaudeMessage ==
    /\ pc = "build" /\ fmt = "claude" /\ Len(messages) < MaxMsgs
    /\ \E m \in ClaudeMessages : messages' = Append(messages, m)
    /\ UNCHANGED <<fmt, tools, heap, pc, out>>

AddOpenAIMessage ==
    /\ pc = "build" /\ fmt = "openai" /\ Len(messages) < MaxMsgs
    /\ \E m \in OpenAIMessages : messages' = Append(messages, m)
    /\ UNCHANGED <<fmt, tools, heap, pc, out>>

\* what the caller holds after the call: the direction and the result
OutOf(dir, r) ==
    IF r.raised THEN [dir |-> dir, raised |-> TRUE, exc |-> r.exc]
    ELSE [dir |-> dir, raised |-> FALSE, value |-> r.value]

ConvertClaudeToGemini ==
    /\ pc = "build" /\ fmt = "claude"
    /\ LET r == C2G_convert_request(Payload, heap)
       IN  out' = OutOf("c2g", r) /\ heap' = r.heap
    /\ pc' = "done"
    /\ UNCHANGED <<fmt, messages, tools>>

ConvertClaudeToOpenAI ==
    /\ pc = "build" /\ fmt = "claude"
    /\ LET r == C2O_convert_request(Payload, heap)
       IN  out' = OutOf("c2o", r) /\ heap' = r.heap
    /\ pc' = "done"
    /\ UNCHANGED <<fmt, messages, tools>>

ConvertOpenAIToGemini ==
    /\ pc = "build" /\ fmt = "openai"
    /\ LET r == O2G_convert_request(Payload, heap)
       IN  out' = OutOf("o2g", r) /\ heap' = r.heap
    /\ pc' = "done"
    /\ UNCHANGED <<fmt, messages, tools>>

Next ==
    \/ AddClaudeMessage
    \/ AddOpenAIMessage
    \/ ConvertClaudeToGemini
    \/ ConvertClaudeToOpenAI
    \/ ConvertOpenAIToGemini

Spec == Init /\ [][Next]_vars


----------------------------------------------------------------------------
\* Properties.  Done(dir) holds once convert_request of direction dir has
\* returned a request to the caller.

Done(dir) == pc = "done" /\ out.dir = dir /\ ~out.raised

\* the parts of all turns of a Gemini contents list, in order
AllParts(contents) == Concat([i \in 1..Len(contents) |-> contents[i].parts])

\* the functionResponse names of a Gemini contents list, in order
ResponseNames(contents) ==
    LET ps == AllParts(contents)
        idx == SelectIdx([n \in 1..Len(ps) |-> "functionResponse" \in DOMAIN ps[n]], 1)
    IN  [j \in 1..Len(idx) |-> ps[idx[j]].functionResponse.name]

\* the tool messages a Claude->OpenAI output holds for tool_result blocks
ToolResultMessages(msgs) ==
    SelectSeq(msgs, LAMBDA m : m.role = "tool" /\ "tool_call_id" \in DOMAIN m)

\* OpenAI input: the tool-role turns translated as results, in order
OpenAIResults == SelectSeq(messages, LAMBDA m : Get(m, "role", "") = "tool" /\ ~O2G_HasToolCalls(m))

\* OpenAI input: call positions <<i, j>> (turn i, entry j of its tool_calls)
OpenAICallPos ==
    UNION {{<<i, j>> : j \in 1..Len(Get(messages[i], "tool_calls", <<>>))} : i \in 1..Len(messages)}
OpenAICallId(q) == Get(messages[q[1]].tool_calls[q[2]], "id", "")
OpenAICallName(q) == Get(Get(messages[q[1]].tool_calls[q[2]], "function", <<>>), "name", <<>>)

IsToolUseTurn(m) ==
    /\ Get(m, "content", PyNone).k = "list"
    /\ \E j \in 1..Len(m.content.items) : HasType(m.content.items[j], "tool_use")

\* Claude input: the tool_result blocks translated as results, in order
\* (those of an assistant turn that holds tool_use blocks are not translated)
ClaudeResults ==
    Concat([i \in 1..Len(messages) |->
        IF Get(messages[i], "content", PyNone).k = "list"
           /\ ~(IsToolUseTurn(messages[i]) /\ messages[i].role = "assistant")
        THEN SelectSeq(messages[i].content.items, LAMBDA it : HasType(it, "tool_result"))
        ELSE <<>>])

\* Claude input: positions <<i, j>> of the tool_use blocks of assistant turns
ClaudeCallPos ==
    UNION {{<<i, j>> : j \in {n \in 1..Len(Get(Get(messages[i], "content", PyNone), "items", <<>>)) :
                                  HasType(messages[i].content.items[n], "tool_use")}} :
           i \in {n \in 1..Len(messages) : messages[n].role = "assistant"}}
ClaudeCallId(q) == Get(messages[q[1]].content.items[q[2]], "id", "")
ClaudeCallName(q) == Get(messages[q[1]].content.items[q[2]], "name", <<>>)

Before(q, r) == q[1] < r[1] \/ (q[1] = r[1] /\ q[2] < r[2])


\* an OpenAI tool turn names a call of its own accord, or through its identifier
OpenAIResolves(m) ==
    \/ Truthy(Get(m, "name", <<>>))
    \/ \E q \in OpenAICallPos :
          /\ "tool_call_id" \in DOMAIN m /\ TruthyId(m.tool_call_id)
          /\ OpenAICallId(q) = m.tool_call_id /\ Truthy(OpenAICallName(q))

ClaudeResolves(b) ==
    \E q \in ClaudeCallPos :
        /\ "tool_use_id" \in DOMAIN b /\ TruthyId(b.tool_use_id)
        /\ ClaudeCallId(q) = b.tool_use_id /\ Truthy(ClaudeCallName(q))

\* C1: in the output of every direction every translated tool result carries
\* a non-empty function name, and the literal "unknown" when its identifier
\* (or embedded pattern) resolves to no call.
C1_ToolResultsNamed ==
    /\ Done("o2g") =>
          LET names == ResponseNames(out.value.contents)
          IN  /\ Len(names) = Len(OpenAIResults)
              /\ \A k \in 1..Len(names) :
                    /\ names[k] # <<>>
                    /\ ~OpenAIResolves(OpenAIResults[k]) => names[k] = Unknown
    /\ Done("c2o") =>
          LET res == ToolResultMessages(out.value.messages)
          IN  /\ Len(res) = Len(ClaudeResults)
              /\ \A k \in 1..Len(res) :
                    /\ res[k].name # <<>>
                    /\ ~ClaudeResolves(ClaudeResults[k]) => res[k].name = Unknown
    /\ Done("c2g") =>
          \A k \in 1..Len(ResponseNames(out.value.contents)) :
              ResponseNames(out.value.contents)[k] # <<>>

\* a result that names no function itself and references the call at q
OpenAIRefers(m, q) ==
    /\ ~Truthy(Get(m, "name", <<>>))
    /\ "tool_call_id" \in DOMAIN m /\ TruthyId(m.tool_call_id)
    /\ OpenAICallId(q) = m.tool_call_id
    /\ Truthy(OpenAICallName(q))

ClaudeRefers(b, q) ==
    /\ "tool_use_id" \in DOMAIN b /\ TruthyId(b.tool_use_id)
    /\ ClaudeCallId(q) = b.tool_use_id
    /\ Truthy(ClaudeCallName(q))

\* q is the last call, in input order, with its identifier and a name
OpenAILastCall(q) ==
    \A r \in OpenAICallPos :
        (OpenAICallId(r) = OpenAICallId(q) /\ Truthy(OpenAICallName(r))) => ~Before(q, r)
ClaudeLastCall(q) ==
    \A r \in ClaudeCallPos :
        (ClaudeCallId(r) = ClaudeCallId(q) /\ Truthy(ClaudeCallName(r))) => ~Before(q, r)

\* C2 as stated: whenever a call with identifier c and name n occurs and a
\* result references c without a name of its own, the translated result
\* carries n (and, towards OpenAI, tool_call_id c).
C2_EveryCallNameCarried ==
    /\ Done("o2g") =>
          \A k \in 1..Len(OpenAIResults) : \A q \in OpenAICallPos :
              OpenAIRefers(OpenAIResults[k], q)
                  => ResponseNames(out.value.contents)[k] = OpenAICallName(q)
    /\ Done("c2o") =>
          \A k \in 1..Len(ClaudeResults) : \A q \in ClaudeCallPos :
              ClaudeRefers(ClaudeResults[k], q)
                  => /\ ToolResultMessages(out.value.messages)[k].name = ClaudeCallName(q)
                     /\ ToolResultMessages(out.value.messages)[k].tool_call_id = ClaudeCallId(q)

\* C2 amended: the translated result carries the name of the last call, in
\* input order, that has identifier c and a name (and tool_call_id c).
C2_LastCallNameCarried ==
    /\ Done("o2g") =>
          /\ Len(ResponseNames(out.value.contents)) = Len(OpenAIResults)
          /\ \A k \in 1..Len(OpenAIResults) : \A q \in OpenAICallPos :
                (OpenAIRefers(OpenAIResults[k], q) /\ OpenAILastCall(q))
                    => ResponseNames(out.value.contents)[k] = OpenAICallName(q)
    /\ Done("c2o") =>
          /\ Len(ToolResultMessages(out.value.messages)) = Len(ClaudeResults)
          /\ \A k \in 1..Len(ClaudeResults) : \A q \in ClaudeCallPos :
                (ClaudeRefers(ClaudeResults[k], q) /\ ClaudeLastCall(q))
                    => /\ ToolResultMessages(out.value.messages)[k].name = ClaudeCallName(q)
                       /\ ToolResultMessages(out.value.messages)[k].tool_call_id = ClaudeCallId(q)

\* a result resolved through a call identifier that two calls with different
\* names share, in both directions' reach (here: OpenAI -> Gemini)
C2_Witness ==
    /\ Done("o2g")
    /\ \E k \in 1..Len(OpenAIResults) : \E q, r \in OpenAICallPos :
          /\ OpenAIRefers(OpenAIResults[k], q) /\ OpenAIRefers(OpenAIResults[k], r)
          /\ OpenAICallName(q) # OpenAICallName(r)
          /\ OpenAILastCall(q)
          /\ ResponseNames(out.value.contents)[k] = OpenAICallName(q)


\* Claude input: (id, name) of the tool_use blocks of assistant turns, in
\* turn order, then block order within the turn
ClaudeToolUseSeq ==
    Concat([i \in 1..Len(messages) |->
        IF messages[i].role = "assistant" /\ Get(messages[i], "content", PyNone).k = "list"
        THEN LET us == SelectSeq(messages[i].content.items, LAMBDA it : HasType(it, "tool_use"))
             IN  [j \in 1..Len(us) |-> <<Get(us[j], "id", ""), Get(us[j], "name", <<>>)>>]
        ELSE <<>>])

\* the assistant turns that hold tool_use blocks
ClaudeToolUseTurns ==
    {i \in 1..Len(messages) : messages[i].role = "assistant" /\ IsToolUseTurn(messages[i])}

\* C4: Claude -> OpenAI, k tool_use blocks spread over m assistant turns give
\* exactly k output messages that carry tool_calls, each an assistant message
\* with exactly one entry, and their (id, name) sequence is that of the blocks
\* in input order.
C4_OneMessagePerToolUse ==
    Done("c2o") =>
        LET carrying == SelectSeq(out.value.messages, LAMBDA m : "tool_calls" \in DOMAIN m)
        IN  /\ Len(carrying) = Len(ClaudeToolUseSeq)
            /\ \A k \in 1..Len(carrying) :
                  /\ carrying[k].role = "assistant"
                  /\ Len(carrying[k].tool_calls) = 1
                  /\ <<carrying[k].tool_calls[1].id, carrying[k].tool_calls[1].function.name>>
                         = ClaudeToolUseSeq[k]

\* at least three tool_use blocks spread over at least two assistant turns,
\* with different names, have been translated
C4_Witness ==
    /\ Done("c2o")
    /\ Cardinality(ClaudeToolUseTurns) >= 2
    /\ Len(ClaudeToolUseSeq) >= 3
    /\ \E a, b \in 1..Len(ClaudeToolUseSeq) : ClaudeToolUseSeq[a] # ClaudeToolUseSeq[b]
    /\ Len(SelectSeq(out.value.messages, LAMBDA m : "tool_calls" \in DOMAIN m)) = Len(ClaudeToolUseSeq)

SystemTurns == SelectSeq(messages, LAMBDA m : Get(m, "role", "") = "system")
NonSystemTurns == SelectSeq(messages, LAMBDA m : Get(m, "role", "") # "system")
SystemTexts == [i \in 1..Len(SystemTurns) |-> SystemTurns[i].content.s]
AllSystemStrings == \A i \in 1..Len(SystemTurns) : Get(SystemTurns[i], "content", PyNone).k = "str"

\* s1 "\n" s2 "\n" ... sn
RECURSIVE NewlineJoined(_)
NewlineJoined(ss) ==
    IF ss = <<>> THEN <<>>
    ELSE IF Len(ss) = 1 THEN ss[1]
    ELSE ss[1] \o <<"\n">> \o NewlineJoined(Tail(ss))

\* C5: Claude -> Gemini, with n >= 1 system turns whose contents are strings
\* s1..sn the request converts exactly as the request without its system turns
\* does (same outcome, same contents, hence no system turn in contents), and
\* the output holds one systemInstruction whose single text part is s1..sn
\* joined by "\n".
C5_SystemTurnsJoined ==
    (pc = "done" /\ out.dir = "c2g" /\ SystemTurns # <<>> /\ AllSystemStrings) =>
        LET without == C2G_convert_request([messages |-> NonSystemTurns, tools |-> tools], heap)
        IN  /\ out.raised = without.raised
            /\ ~out.raised =>
                  /\ out.value.contents = without.value.contents
                  /\ "systemInstruction" \notin DOMAIN without.value
                  /\ out.value.systemInstruction = [parts |-> <<[text |-> NewlineJoined(SystemTexts)]>>]

\* two system turns with different texts around a turn that is converted
C5_Witness ==
    /\ Done("c2g")
    /\ Len(SystemTurns) >= 2 /\ AllSystemStrings
    /\ SystemTexts[1] # SystemTexts[2]
    /\ out.value.contents # <<>>
    /\ out.value.systemInstruction.parts[1].text = SystemTexts[1] \o <<"\n">> \o SystemTexts[2]

\* C6: OpenAI -> Gemini, however many system turns the input holds, the output
\* has one systemInstruction whose text is the texts of all system turns, in
\* input order, joined by newlines.
C6_AllSystemTurnsJoined ==
    (Done("o2g") /\ SystemTurns # <<>> /\ AllSystemStrings) =>
        /\ "systemInstruction" \in DOMAIN out.value
        /\ out.value.systemInstruction = [parts |-> <<[text |-> NewlineJoined(SystemTexts)]>>]

\* C9: convert_request of each direction returns an output, whatever the shape
\* of the payload's parts.
C9_ConversionNeverRaises == pc = "done" => ~out.raised


----------------------------------------------------------------------------
\* The caller of the legacy-pattern recovery: one Claude turn whose last block
\* is a tool_result, the content of which is written token by token before the
\* payload is converted to Gemini.

MaxLen == 7

RegexTokens == {ObsWords, Tick, "f"}

RegexFrames ==
    { <<Msg("user", PyList(<<ToolResult("c1", PyStr(<<>>))>>))>>,
      <<Msg("assistant", PyList(<<TextBlock(<<"a">>),
                                  [type |-> "tool_result", content |-> PyStr(<<>>)]>>))>> }

InitRegex ==
    /\ fmt = "claude"
    /\ messages \in RegexFrames
    /\ tools = <<>>
    /\ heap = <<>>
    /\ pc = "build"
    /\ out = NoOut

AppendResultToken ==
    /\ pc = "build" /\ fmt = "claude"
    /\ LET items == messages[1].content.items
           last == items[Len(items)]
       IN  /\ Len(last.content.s) < MaxLen
           /\ \E t \in RegexTokens :
                 messages' = <<[messages[1] EXCEPT !.content.items[Len(items)].content.s = Append(@, t)]>>
    /\ UNCHANGED <<fmt, tools, heap, pc, out>>

NextRegex ==
    \/ AppendResultToken
    \/ ConvertClaudeToGemini

SpecRegex == InitRegex /\ [][NextRegex]_vars

\* Claude input: every tool_result block, in order
ClaudeAllResults ==
    Concat([i \in 1..Len(messages) |->
        IF Get(messages[i], "content", PyNone).k = "list"
        THEN SelectSeq(messages[i].content.items, LAMBDA it : HasType(it, "tool_result"))
        ELSE <<>>])

\* the functionResponse parts of a Gemini contents list, in order
ResponseParts(contents) ==
    SelectSeq(AllParts(contents), LAMBDA q : "functionResponse" \in DOMAIN q)

\* positions i..j of s read: Observation of Tool, backtick, one or more
\* characters none of which is a backtick, backtick
IsOccurrence(s, i, j) ==
    /\ 1 <= i /\ i + 3 <= j /\ j <= Len(s)
    /\ s[i] = ObsWords /\ s[i + 1] = Tick /\ s[j] = Tick
    /\ \A n \in (i + 2)..(j - 1) : s[n] # Tick

Occurrences(s) == {q \in (1..Len(s)) \X (1..Len(s)) : IsOccurrence(s, q[1], q[2])}

\* C3: Claude -> Gemini, for every tool_result block whose content is a string
\* the functionResponse has as name the text between the backticks of the first
\* occurrence of the pattern in the content, the literal "unknown" when the
\* content holds no occurrence, and as response.result the content unchanged.
C3_LegacyPatternName ==
    Done("c2g") =>
        /\ Len(ResponseParts(out.value.contents)) = Len(ClaudeAllResults)
        /\ \A k \in 1..Len(ClaudeAllResults) :
              LET s == ClaudeAllResults[k].content.s
                  fr == ResponseParts(out.value.contents)[k].functionResponse
              IN  /\ fr.response = [result |-> s]
                  /\ Occurrences(s) = {} => fr.name = Unknown
                  /\ \A q \in Occurrences(s) :
                        (\A r \in Occurrences(s) : q[1] <= r[1])
                            => fr.name = SubSeq(s, q[1] + 2, q[2] - 1)

\* a content with two occurrences that name different functions has been
\* translated, and the result carries the first one's name
C3_Witness ==
    /\ Done("c2g")
    /\ \E k \in 1..Len(ClaudeAllResults) :
          LET s == ClaudeAllResults[k].content.s
          IN  \E q, r \in Occurrences(s) :
                 /\ q[1] < r[1]
                 /\ SubSeq(s, q[1] + 2, q[2] - 1) # SubSeq(s, r[1] + 2, r[2] - 1)
                 /\ ResponseParts(out.value.contents)[k].functionResponse.name
                        = SubSeq(s, q[1] + 2, q[2] - 1)


----------------------------------------------------------------------------
\* The caller of the argument parsing: an OpenAI conversation whose first tool
\* call has its arguments string written token by token before the payload is
\* converted to Gemini.

MaxFrags == 5

ArgsTokens == {"{", "}", Quote, ":", "1", "not json"}

ArgsFrames ==
    { <<Msg("user", PyStr(<<"a">>)),
        [role |-> "assistant", content |-> PyNone,
         tool_calls |-> <<ToolCall("c1", <<"f">>, PyStr(<<>>)),
                          ToolCall("c2", <<"g">>, PyStr(Dumps(ArgsX1)))>>],
        [role |-> "tool", tool_call_id |-> "c1", content |-> PyStr(<<"r">>)]>>,
      <<[role |-> "assistant", content |-> PyStr(<<"t">>),
         tool_calls |-> <<ToolCall("c1", <<"f">>, PyStr(<<>>))>>]>> }

InitArgs ==
    /\ fmt = "openai"
    /\ messages \in ArgsFrames
    /\ tools = <<>>
    /\ heap = <<>>
    /\ pc = "build"
    /\ out = NoOut

\* the turn whose first call is being written
ArgsTurn == CHOOSE i \in 1..Len(messages) : "tool_calls" \in DOMAIN messages[i]

AppendArgsToken ==
    /\ pc = "build" /\ fmt = "openai"
    /\ Len(messages[ArgsTurn].tool_calls[1].function.arguments.s) < MaxFrags
    /\ \E t \in ArgsTokens :
          messages' = [messages EXCEPT ![ArgsTurn].tool_calls[1].function.arguments.s = Append(@, t)]
    /\ UNCHANGED <<fmt, tools, heap, pc, out>>

NextArgs ==
    \/ AppendArgsToken
    \/ ConvertOpenAIToGemini

SpecArgs == InitArgs /\ [][NextArgs]_vars

\* the JSON grammar on token sequences: string, member, members, value
IsJsonString(ts) ==
    /\ Len(ts) >= 2 /\ ts[1] = Quote /\ ts[Len(ts)] = Quote
    /\ \A n \in 2..(Len(ts) - 1) : ts[n] # Quote

RECURSIVE IsJsonValue(_)
RECURSIVE IsJsonMembers(_)
IsJsonMember(ts) ==
    \E n \in 1..Len(ts) :
        /\ ts[n] = ":"
        /\ IsJsonString(SubSeq(ts, 1, n - 1))
        /\ IsJsonValue(SubSeq(ts, n + 1, Len(ts)))
IsJsonMembers(ts) ==
    \/ IsJsonMember(ts)
    \/ \E n \in 1..Len(ts) :
          /\ ts[n] = ","
          /\ IsJsonMember(SubSeq(ts, 1, n - 1))
          /\ IsJsonMembers(SubSeq(ts, n + 1, Len(ts)))
IsJsonValue(ts) ==
    \/ ts = <<"null">>
    \/ Len(ts) = 1 /\ IsNumTok(ts[1])
    \/ IsJsonString(ts)
    \/ ts = <<"{", "}">>
    \/ /\ Len(ts) > 2 /\ ts[1] = "{" /\ ts[Len(ts)] = "}"
       /\ IsJsonMembers(SubSeq(ts, 2, Len(ts) - 1))

\* the input with the arguments of the call at q replaced by the text {}
WithEmptyObjectArgs(q) ==
    [messages EXCEPT ![q[1]].tool_calls[q[2]].function.arguments = PyStr(<<"{", "}">>)]

\* the calls whose arguments are a string that is not a JSON text
UnparseableCalls ==
    {q \in OpenAICallPos :
        LET args == Get(Get(messages[q[1]].tool_calls[q[2]], "function", <<>>), "arguments", PyStr(<<"{", "}">>))
        IN  args.k = "str" /\ ~IsJsonValue(args.s)}

\* the functionCall part the call at q is translated to
CallPartOf(q) ==
    LET before == Len(SelectSeq(SubSeq(messages, 1, q[1] - 1),
                                LAMBDA m : O2G_MessageTurns(m, EmptyMap) # <<>>))
    IN  out.value.contents[before + 1].parts[q[2]]

\* C10: OpenAI -> Gemini, a tool call whose arguments string is not parseable
\* converts without raising to a functionCall with args {} and the call's
\* name, and the whole output is the one the conversation gives with the
\* parseable arguments {} in that call's place.
C10_UnparseableArgsFallBack ==
    (pc = "done" /\ out.dir = "o2g") =>
        \A q \in UnparseableCalls :
            /\ ~out.raised
            /\ out.value = O2G_convert_request([messages |-> WithEmptyObjectArgs(q), tools |-> tools], heap).value
            /\ CallPartOf(q).functionCall.args = PyObj(<<>>)
            /\ CallPartOf(q).functionCall.name = OpenAICallName(q)

\* a call with the arguments { "not json" has been translated next to a call
\* with parseable arguments and a tool result
C10_Witness ==
    /\ Done("o2g")
    /\ \E q \in UnparseableCalls :
          /\ messages[q[1]].tool_calls[q[2]].function.arguments.s = <<"{", "not json">>
          /\ Len(messages[q[1]].tool_calls) = 2
          /\ CallPartOf(q).functionCall.args = PyObj(<<>>)
          /\ out.value.contents[q[1]].parts[2].functionCall.args = ArgsX1


----------------------------------------------------------------------------
\* The caller that holds tool declarations: it allocates each schema dict,
\* assembles a payload of turns and declarations that reference the dicts,
\* then calls one convert_request, or one fix_request_issues, on it.

MaxItems == 3

ListType == PyList(<<PyStr(<<"array">>), PyStr(<<"null">>)>>)

\* a tool's name and its schema: a dict, null, or no schema key at all
Shape(name, schema) == [name |-> name, shape |-> "dict", schema |-> schema]
NullShape(name) == [name |-> name, shape |-> "null"]
AbsentShape(name) == [name |-> name, shape |-> "absent"]

ToolShapes ==
    { Shape("segment_anything", [required |-> <<"object", "x">>]),
      Shape("segment_anything", [type |-> PyStr(<<"object">>)]),
      Shape("Pira_image2image", [required |-> <<"cfg", "x", "cfg">>]),
      Shape("gemini_edit", [required |-> <<"image">>,
                            properties |-> [images |-> [type |-> ListType]]]),
      Shape("gemini_edit", [properties |-> [images |-> [type |-> PyStr(<<"array">>)]]]),
      NullShape("gemini_edit"),
      Shape("outpaint", [required |-> <<"x", "prompt">>]),
      Shape("outpaint", [required |-> <<"object", "cfg", "image">>]),
      AbsentShape("outpaint"),
      Shape("other", [required |-> <<"object", "cfg">>]),
      Shape("other", [properties |-> [x |-> [enum |-> <<PyNum(1), PyStr(<<"a">>)>>]]]),
      NullShape("other") }

PlainTurns ==
    { Msg("user", PyStr(<<"a">>)),
      Msg("user", PyList(<<>>)),
      Msg("system", PyStr(<<"A">>)) }

GeminiTurns ==
    { [role |-> "user", parts |-> <<[text |-> <<"a">>]>>],
      [role |-> "model", parts |-> <<>>],
      [role |-> "user"] }

InitTools ==
    /\ fmt \in {"claude", "openai", "gemini"}
    /\ messages = <<>>
    /\ tools = <<>>
    /\ heap = <<>>
    /\ pc = "build"
    /\ out = NoOut

Room == Len(messages) + Len(tools) < MaxItems

\* the slot a declaration gets for a schema, and the heap after allocation
SlotFor(t) ==
    IF t.shape = "null" THEN PyNone ELSE [ref |-> Len(heap) + 1]
HeapWith(t) ==
    IF t.shape = "dict" THEN Append(heap, t.schema) ELSE heap

AddPlainTurn ==
    /\ pc = "build" /\ fmt \in {"claude", "openai"} /\ Room
    /\ \E m \in PlainTurns : messages' = Append(messages, m)
    /\ UNCHANGED <<fmt, tools, heap, pc, out>>

AddGeminiTurn ==
    /\ pc = "build" /\ fmt = "gemini" /\ Room
    /\ \E m \in GeminiTurns : messages' = Append(messages, m)
    /\ UNCHANGED <<fmt, tools, heap, pc, out>>

AddClaudeTool ==
    /\ pc = "build" /\ fmt = "claude" /\ Room
    /\ \E t \in ToolShapes :
          /\ tools' = Append(tools,
                [name |-> t.name, description |-> "d"]
                @@ (IF t.shape = "absent" THEN <<>> ELSE [input_schema |-> SlotFor(t)]))
          /\ heap' = HeapWith(t)
    /\ UNCHANGED <<fmt, messages, pc, out>>

AddOpenAITool ==
    /\ pc = "build" /\ fmt = "openai" /\ Room
    /\ \E t \in ToolShapes :
          /\ tools' = Append(tools,
                [type |-> "function",
                 function |-> [name |-> t.name, description |-> "d"]
                              @@ (IF t.shape = "absent" THEN <<>> ELSE [parameters |-> SlotFor(t)])])
          /\ heap' = HeapWith(t)
    /\ UNCHANGED <<fmt, messages, pc, out>>

\* a tools entry whose type is not "function", or that has no type key
OtherOpenAITools ==
    { [type |-> "retrieval", function |-> [name |-> "other", description |-> "d"]],
      [function |-> [name |-> "other", description |-> "d"]] }

AddOtherOpenAITool ==
    /\ pc = "build" /\ fmt = "openai" /\ Room
    /\ \E t \in OtherOpenAITools : tools' = Append(tools, t)
    /\ UNCHANGED <<fmt, messages, heap, pc, out>>

AddGeminiFunction ==
    /\ pc = "build" /\ fmt = "gemini" /\ Room
    /\ \E t \in ToolShapes :
          /\ tools' = Append(tools,
                [name |-> t.name, description |-> "d"]
                @@ (IF t.shape = "absent" THEN <<>> ELSE [parameters |-> SlotFor(t)]))
          /\ heap' = HeapWith(t)
    /\ UNCHANGED <<fmt, messages, pc, out>>

\* the Gemini-format request the caller holds
GeminiRequest ==
    [contents |-> messages]
    @@ (IF tools # <<>> THEN [tools |-> <<[functionDeclarations |-> tools]>>] ELSE <<>>)

FixGeminiByClaudeConverter ==
    /\ pc = "build" /\ fmt = "gemini"
    /\ LET r == C2G_fix_request_issues(GeminiRequest, heap)
       IN  out' = OutOf("fix_c2g", r) /\ heap' = r.heap
    /\ pc' = "done"
    /\ UNCHANGED <<fmt, messages, tools>>

FixGeminiByOpenAIConverter ==
    /\ pc = "build" /\ fmt = "gemini"
    /\ LET r == O2G_fix_request_issues(GeminiRequest, heap)
       IN  out' = OutOf("fix_o2g", r) /\ heap' = r.heap
    /\ pc' = "done"
    /\ UNCHANGED <<fmt, messages, tools>>

FixGeminiByCaller ==
    /\ pc = "build" /\ fmt = "gemini"
    /\ LET r == Caller_fix_request_issues(GeminiRequest, heap)
       IN  out' = OutOf("fix_caller", r) /\ heap' = r.heap
    /\ pc' = "done"
    /\ UNCHANGED <<fmt, messages, tools>>

FixOpenAI ==
    /\ pc = "build" /\ fmt = "openai"
    /\ LET r == C2O_fix_request_issues(Payload, heap)
       IN  out' = OutOf("fix_c2o", r) /\ heap' = r.heap
    /\ pc' = "done"
    /\ UNCHANGED <<fmt, messages, tools>>

\* the payload with only the keys of kept
PartialPayload(kept) == [key \in kept |-> Payload[key]]

\* a payload that lacks the messages key, the tools key or both is converted
ConvertPartialPayload ==
    /\ pc = "build" /\ fmt \in {"claude", "openai"}
    /\ \E dir \in (IF fmt = "claude" THEN {"c2g", "c2o"} ELSE {"o2g"}) :
       \E kept \in {{}, {"messages"}, {"tools"}} :
          LET r == ConvertBy(dir, PartialPayload(kept), heap)
          IN  /\ out' = [dir |-> "partial", via |-> dir, kept |-> kept, result |-> OutOf(dir, r)]
              /\ heap' = r.heap
    /\ pc' = "done"
    /\ UNCHANGED <<fmt, messages, tools>>

NextTools ==
    \/ AddPlainTurn
    \/ AddGeminiTurn
    \/ AddClaudeTool
    \/ AddOpenAITool
    \/ AddOtherOpenAITool
    \/ AddGeminiFunction
    \/ ConvertClaudeToGemini
    \/ ConvertClaudeToOpenAI
    \/ ConvertOpenAIToGemini
    \/ ConvertPartialPayload
    \/ FixGeminiByClaudeConverter
    \/ FixGeminiByOpenAIConverter
    \/ FixGeminiByCaller
    \/ FixOpenAI

SpecTools == InitTools /\ [][NextTools]_vars


FixDirs == {"fix_c2g", "fix_o2g", "fix_caller", "fix_c2o"}

\* the copy of fix_request_issues that produced out
FixBy(dir, r, h) ==
    CASE dir = "fix_c2g" -> C2G_fix_request_issues(r, h)
      [] dir = "fix_o2g" -> O2G_fix_request_issues(r, h)
      [] dir = "fix_caller" -> Caller_fix_request_issues(r, h)
      [] dir = "fix_c2o" -> C2O_fix_request_issues(r, h)

\* the value of a declaration: its schema reference replaced by the dict
ValueOfFunc(func, h) ==
    IF "parameters" \in DOMAIN func /\ "ref" \in DOMAIN func.parameters
    THEN [func EXCEPT !.parameters = [val |-> h[func.parameters.ref]]]
    ELSE func

\* the value of the request the caller passed to the fix
RequestValue(dir, h) ==
    IF dir = "fix_c2o"
    THEN [messages |-> messages,
          tools |-> [i \in 1..Len(tools) |->
                        [tools[i] EXCEPT !.function = ValueOfFunc(tools[i].function, h)]]]
    ELSE [contents |-> messages]
         @@ (IF tools # <<>>
             THEN [tools |-> <<[functionDeclarations |->
                                  [i \in 1..Len(tools) |-> ValueOfFunc(tools[i], h)]]>>]
             ELSE <<>>)

\* the declarations of the request, whatever its format
RequestFuncs == [i \in 1..Len(tools) |-> IF fmt = "openai" THEN tools[i].function ELSE tools[i]]

Requires(p, param) == "required" \in DOMAIN p /\ \E n \in 1..Len(p.required) : p.required[n] = param

\* the stale name or shape a named tool's patch corrects is present
PatchPrecondition(name, p) ==
    \/ name = "segment_anything" /\ Requires(p, "object")
    \/ name = "Pira_image2image" /\ Requires(p, "cfg")
    \/ name = "gemini_edit" /\ Requires(p, "image")
    \/ /\ name = "gemini_edit"
       /\ "properties" \in DOMAIN p /\ "images" \in DOMAIN p.properties
       /\ "type" \in DOMAIN p.properties.images /\ p.properties.images.type.k = "list"
    \/ name = "outpaint" /\ Requires(p, "prompt")

NoPatchPrecondition ==
    \A i \in 1..Len(RequestFuncs) :
        LET func == RequestFuncs[i]
        IN  ("parameters" \in DOMAIN func /\ "ref" \in DOMAIN func.parameters)
                => ~PatchPrecondition(func.name, heap[func.parameters.ref])

\* C7: for each copy of fix_request_issues and every request r on which it
\* returns, fixing the result again returns the result, and a request in which
\* no patch precondition holds is returned equal to the input.
C7_RepairIdempotentAndNoOp ==
    \A dir \in FixDirs :
        Done(dir) =>
            /\ ~FixBy(dir, out.value, heap).raised
            /\ FixBy(dir, out.value, heap).value = out.value
            /\ NoPatchPrecondition => out.value = RequestValue(dir, heap)

\* the idempotence half of C7 alone
C7_RepairIdempotent ==
    \A dir \in FixDirs :
        Done(dir) =>
            /\ ~FixBy(dir, out.value, heap).raised
            /\ FixBy(dir, out.value, heap).value = out.value

\* C8: a call of convert_request or of fix_request_issues leaves the caller's
\* payload as it was: its turns, its declarations and the schema dicts the
\* declarations reference.
C8_InputUnchanged ==
    [][(pc = "build" /\ pc' = "done")
          => (messages' = messages /\ tools' = tools /\ heap' = heap)]_vars

\* a conversion has returned a patched schema while the caller's dict, which
\* the declaration still references, holds the stale entry
C8_Witness ==
    /\ Done("c2g")
    /\ \E i \in 1..Len(tools) :
          /\ tools[i].name = "segment_anything"
          /\ "input_schema" \in DOMAIN tools[i] /\ "ref" \in DOMAIN tools[i].input_schema
          /\ Requires(heap[tools[i].input_schema.ref], "object")
          /\ "val" \in DOMAIN out.value.tools[1].functionDeclarations[i].parameters
          /\ out.value.tools[1].functionDeclarations[i].parameters.val.required
                 = <<"object_english_name", "x">>


ConvertDirs == {"c2g", "c2o", "o2g"}

\* the declarations of the payload, in order: their name and description
InputDeclarations ==
    [i \in 1..Len(tools) |->
        LET d == IF fmt = "openai" THEN Get(tools[i], "function", <<>>) ELSE tools[i]
        IN  [name |-> Get(d, "name", ""), description |-> Get(d, "description", "")]]

\* the declarations of the output, in order, with their wrapping removed
OutputDeclarations ==
    IF "tools" \notin DOMAIN out.value THEN <<>>
    ELSE IF out.dir = "c2o"
    THEN [i \in 1..Len(out.value.tools) |-> out.value.tools[i].function]
    ELSE Concat([w \in 1..Len(out.value.tools) |-> out.value.tools[w].functionDeclarations])

\* C11: in every direction, a non-empty list of tool declarations gives one
\* output declaration per input declaration, in order, with the input
\* declaration's name and description.
C11_EveryDeclarationCarried ==
    \A dir \in ConvertDirs :
        (Done(dir) /\ tools # <<>>) =>
            /\ Len(OutputDeclarations) = Len(InputDeclarations)
            /\ \A i \in 1..Len(InputDeclarations) :
                  /\ OutputDeclarations[i].name = InputDeclarations[i].name
                  /\ OutputDeclarations[i].description = InputDeclarations[i].description


\* the payload with no tools key
PayloadWithoutTools == [messages |-> messages]

\* C12: in every direction, a payload whose tools field is an empty list or
\* absent gives an output without a tools key, and no output holds an empty
\* tools list or a wrapper whose functionDeclarations list is empty.
C12_NoEmptyToolsField ==
    \A dir \in ConvertDirs :
        Done(dir) =>
            /\ tools = <<>> =>
                  /\ "tools" \notin DOMAIN out.value
                  /\ ~ConvertBy(dir, PayloadWithoutTools, heap).raised
                  /\ "tools" \notin DOMAIN ConvertBy(dir, PayloadWithoutTools, heap).value
            /\ "tools" \in DOMAIN out.value =>
                  /\ out.value.tools # <<>>
                  /\ dir # "c2o" =>
                        \A w \in 1..Len(out.value.tools) :
                            /\ "functionDeclarations" \in DOMAIN out.value.tools[w]
                            /\ out.value.tools[w].functionDeclarations # <<>>

\* a payload with turns and an empty tools list has been converted to OpenAI
\* format, and the output has messages and no tools key
C12_Witness ==
    /\ Done("c2o")
    /\ tools = <<>> /\ messages # <<>>
    /\ out.value.messages # <<>>
    /\ "tools" \notin DOMAIN out.value


\* the turns of a converted request, whatever the target format; system-role
\* messages of an OpenAI-format output are not counted as turns
OutputTurns ==
    IF out.dir = "c2o"
    THEN SelectSeq(Get(out.value, "messages", <<>>), LAMBDA m : Get(m, "role", "") # "system")
    ELSE Get(out.value, "contents", <<>>)

\* the number of tool-call and tool-result blocks a turn bears
ToolBlockCount(m) ==
    LET c == Get(m, "content", PyNone)
        blocks == IF c.k = "list"
                  THEN Cardinality({i \in 1..Len(c.items) :
                           Get(c.items[i], "type", "") \in {"tool_use", "tool_result"}})
                  ELSE 0
    IN  blocks + Len(Get(m, "tool_calls", <<>>))

RECURSIVE MostTurns(_)
MostTurns(ms) ==
    IF ms = <<>> THEN 0
    ELSE (IF ToolBlockCount(Head(ms)) > 1 THEN ToolBlockCount(Head(ms)) ELSE 1) + MostTurns(Tail(ms))

\* C13: in every direction, the output has one turn per non-system input turn,
\* except that a turn bearing N tool-call or tool-result blocks may have become
\* N turns; no non-system input turn disappears.
C13_TurnCountKept ==
    \A dir \in ConvertDirs :
        Done(dir) =>
            /\ Len(OutputTurns) >= Len(NonSystemTurns)
            /\ Len(OutputTurns) <= MostTurns(NonSystemTurns)


\* the text spans of the non-system, non-tool input turns: a string content, or
\* the text of each text block of a list content
InputTextSpans ==
    UNION { LET c == Get(messages[i], "content", PyNone)
            IN  IF c.k = "str" THEN {c.s}
                ELSE IF c.k = "list"
                THEN {Get(c.items[j], "text", <<>>) :
                        j \in {n \in 1..Len(c.items) : HasType(c.items[n], "text")}}
                ELSE {}
          : i \in {n \in 1..Len(messages) : Get(messages[n], "role", "") \notin {"system", "tool"}} }

\* the texts of the output: text parts of Gemini turns, or the string content
\* and text entries of OpenAI messages
OutputTexts ==
    IF out.dir = "c2o"
    THEN UNION { LET c == Get(out.value.messages[i], "content", PyNone)
                 IN  IF c.k = "str" THEN {c.s}
                     ELSE IF c.k = "list"
                     THEN {c.items[j].text : j \in {n \in 1..Len(c.items) : "text" \in DOMAIN c.items[n]}}
                     ELSE {}
               : i \in 1..Len(out.value.messages) }
    ELSE LET parts == AllParts(Get(out.value, "contents", <<>>))
         IN  {parts[j].text : j \in {n \in 1..Len(parts) : "text" \in DOMAIN parts[n]}}

\* needle occurs in hay as a run of consecutive tokens
Contains(hay, needle) ==
    \E i \in 0..(Len(hay) - Len(needle)) : SubSeq(hay, i + 1, i + Len(needle)) = needle

\* C14: every text span of an input turn reappears in a text of the output,
\* also when the turn carries tool-call or tool-result blocks.
C14_NoTextDropped ==
    \A dir \in ConvertDirs :
        Done(dir) =>
            \A span \in InputTextSpans : \E t \in OutputTexts : Contains(t, span)


----------------------------------------------------------------------------
\* A user turn built block by block from text and image blocks, then converted.

MaxBlocks == 3

\* the blocks of a Claude-format turn
ClaudeBlocks ==
    { TextBlock(<<"a">>),
      [type |-> "image", source |-> [type |-> "base64", media_type |-> <<"image/png">>, data |-> <<"QUJD">>]],
      [type |-> "image", source |-> [type |-> "base64", data |-> <<"QUJD">>]],
      [type |-> "image", source |-> [type |-> "url", url |-> <<"http://u">>]] }

\* the blocks of an OpenAI-format turn
OpenAIBlocks ==
    { TextBlock(<<"a">>),
      [type |-> "image_url", image_url |-> [url |-> <<"data:", "image/png", ";base64,", "QUJD">>]],
      [type |-> "image_url", image_url |-> [url |-> <<"data:", "image/png", ";", "charset=x", ";base64,", "QUJD">>]],
      [type |-> "image_url", image_url |-> [url |-> <<"data:", "image/png", ",", "QUJD">>]],
      [type |-> "image_url", image_url |-> [url |-> <<"http://u">>]] }

Blocks == messages[1].content.items

InitBlocks ==
    /\ fmt \in {"claude", "openai"}
    /\ messages = <<Msg("user", PyList(<<>>))>>
    /\ tools = <<>>
    /\ heap = <<>>
    /\ pc = "build"
    /\ out = NoOut

AddClaudeBlock ==
    /\ pc = "build" /\ fmt = "claude" /\ Len(Blocks) < MaxBlocks
    /\ \E b \in ClaudeBlocks : messages' = <<Msg("user", PyList(Append(Blocks, b)))>>
    /\ UNCHANGED <<fmt, tools, heap, pc, out>>

AddOpenAIBlock ==
    /\ pc = "build" /\ fmt = "openai" /\ Len(Blocks) < MaxBlocks
    /\ \E b \in OpenAIBlocks : messages' = <<Msg("user", PyList(Append(Blocks, b)))>>
    /\ UNCHANGED <<fmt, tools, heap, pc, out>>

NextBlocks ==
    \/ AddClaudeBlock
    \/ AddOpenAIBlock
    \/ ConvertClaudeToGemini
    \/ ConvertClaudeToOpenAI
    \/ ConvertOpenAIToGemini

SpecBlocks == InitBlocks /\ [][NextBlocks]_vars


IsImageBlock(b) == HasType(b, "image") \/ HasType(b, "image_url")

\* the URI of an image block
ImageUri(b) ==
    IF HasType(b, "image") THEN Get(b.source, "url", <<>>) ELSE b.image_url.url

\* the block gives its image as base64 data in the plain form
IsInlineImage(b) ==
    \/ HasType(b, "image") /\ b.source.type = "base64"
    \/ /\ HasType(b, "image_url")
       /\ Len(b.image_url.url) = 4
       /\ b.image_url.url[1] = "data:" /\ b.image_url.url[3] = ";base64,"

\* the block gives its image by a URI that is no data URL
IsUriImage(b) ==
    \/ HasType(b, "image") /\ b.source.type = "url"
    \/ HasType(b, "image_url") /\ b.image_url.url[1] # "data:"

InlineMime(b) == IF HasType(b, "image") THEN Get(b.source, "media_type", <<>>) ELSE b.image_url.url[2]
InlineData(b) == IF HasType(b, "image") THEN b.source.data ELSE b.image_url.url[4]

\* the part is the one the image block has to produce
ImagePartFor(b, part) ==
    /\ IsInlineImage(b) =>
          /\ "inline_data" \in DOMAIN part
          /\ part.inline_data.data = InlineData(b)
          /\ InlineMime(b) # <<>> => part.inline_data.mime_type = InlineMime(b)
    /\ IsUriImage(b) =>
          /\ "text" \in DOMAIN part
          /\ Contains(part.text, <<"[">>) /\ Contains(part.text, ImageUri(b))
    /\ "inline_data" \in DOMAIN part \/ "text" \in DOMAIN part

\* C15: towards Gemini every block of a turn of text and image blocks gives
\* one part, in order; an image given as base64 data gives an inline_data part
\* with its mime type and data, an image given by URI a text part that holds
\* the URI.
C15_ImagesKept ==
    \A dir \in {"c2g", "o2g"} :
        (Done(dir) /\ Blocks # <<>>) =>
            LET parts == AllParts(Get(out.value, "contents", <<>>))
            IN  /\ Len(parts) = Len(Blocks)
                /\ \A i \in 1..Len(Blocks) :
                      IsImageBlock(Blocks[i]) => ImagePartFor(Blocks[i], parts[i])


RecognisedRoles == {"user", "assistant", "system", "tool"}

\* every turn of the input has a role outside the recognised ones
AllRolesUnrecognised ==
    \A i \in 1..Len(messages) : Get(messages[i], "role", "") \notin RecognisedRoles

\* the turns of the output, system-role ones included
OutputMessages ==
    IF out.dir = "c2o" THEN Get(out.value, "messages", <<>>) ELSE Get(out.value, "contents", <<>>)

\* C16: in every direction a turn whose role is not recognised is emitted with
\* role "user"; so the output of a conversation of such turns has the role
\* "user" throughout, and no output role lies outside the target vocabulary.
C16_UnknownRoleBecomesUser ==
    \A dir \in ConvertDirs :
        Done(dir) =>
            /\ AllRolesUnrecognised =>
                  \A i \in 1..Len(OutputMessages) : OutputMessages[i].role = "user"
            /\ \A i \in 1..Len(OutputMessages) :
                  OutputMessages[i].role \in
                      (IF dir = "c2o" THEN RecognisedRoles ELSE {"user", "model"})


\* the turn holds a functionResponse part
HoldsFunctionResponse(turn) ==
    \E j \in 1..Len(turn.parts) : "functionResponse" \in DOMAIN turn.parts[j]

\* C17: towards Gemini, every output turn that holds a functionResponse, and
\* every output turn of a conversation of tool-role turns, has the role "model".
C17_ToolResultsHaveModelRole ==
    \A dir \in {"c2g", "o2g"} :
        Done(dir) =>
            LET contents == Get(out.value, "contents", <<>>)
            IN  /\ \A i \in 1..Len(contents) :
                      HoldsFunctionResponse(contents[i]) => contents[i].role = "model"
                /\ (\A i \in 1..Len(messages) : Get(messages[i], "role", "") = "tool") =>
                      \A i \in 1..Len(contents) : contents[i].role = "model"


\* the tools whose schema the repair pass may change
RepairedTools == {"segment_anything", "Pira_image2image", "gemini_edit", "outpaint"}

\* the i-th input declaration carries its schema as a dict
HasInputSchema(i) ==
    LET d == RequestFuncs[i]
        key == IF fmt = "openai" THEN "parameters" ELSE "input_schema"
    IN  key \in DOMAIN d /\ ~IsNoneSlot(d[key])

InputSchema(i) ==
    LET d == RequestFuncs[i]
    IN  SlotDict(IF fmt = "openai" THEN d.parameters ELSE d.input_schema, heap)

\* the output declarations in full
OutputFuncs ==
    IF "tools" \notin DOMAIN out.value THEN <<>>
    ELSE IF out.dir = "c2o"
    THEN [i \in 1..Len(out.value.tools) |-> out.value.tools[i].function]
    ELSE Concat([w \in 1..Len(out.value.tools) |-> out.value.tools[w].functionDeclarations])

\* C18: for a declaration that is not one of the repaired tools, the
\* parameters of the output declaration are deep-equal to the schema of the
\* input declaration, enum values included.
C18_SchemaBodyUnchanged ==
    \A dir \in ConvertDirs :
        (Done(dir) /\ Len(OutputFuncs) = Len(tools)) =>
            \A i \in 1..Len(tools) :
                (HasInputSchema(i) /\ OutputFuncs[i].name \notin RepairedTools) =>
                    /\ "parameters" \in DOMAIN OutputFuncs[i]
                    /\ ~IsNoneSlot(OutputFuncs[i].parameters)
                    /\ SlotDict(OutputFuncs[i].parameters, heap) = InputSchema(i)


\* the turns of a conversion result r, with the names looked up in the
\* correlation map (which depend on later turns) blanked
ErasedTurns(dir, r) ==
    IF dir = "c2o"
    THEN [i \in 1..Len(r.value.messages) |->
            LET m == r.value.messages[i]
            IN  IF "name" \in DOMAIN m THEN [m EXCEPT !.name = <<>>] ELSE m]
    ELSE LET contents == Get(r.value, "contents", <<>>)
         IN  [i \in 1..Len(contents) |->
                [contents[i] EXCEPT !.parts =
                    [j \in 1..Len(contents[i].parts) |->
                        IF "functionResponse" \in DOMAIN contents[i].parts[j]
                        THEN [functionResponse |->
                                [contents[i].parts[j].functionResponse EXCEPT !.name = <<>>]]
                        ELSE contents[i].parts[j]]]]

\* the output turns of the conversation cut after its first k turns
TurnsOfPrefix(dir, k) ==
    ErasedTurns(dir, ConvertBy(dir, [messages |-> SubSeq(messages, 1, k), tools |-> tools], heap))

\* the output turns derived from the last input turn, given the output
\* turns of the conversation without it
DerivedFromLast(all, before) == SubSeq(all, Len(before) + 1, Len(all))

IsPrefix(a, b) == Len(a) <= Len(b) /\ SubSeq(b, 1, Len(a)) = a

RECURSIVE IsSubseq(_, _)
\* a is b with some elements left out
IsSubseq(a, b) ==
    IF a = <<>> THEN TRUE
    ELSE IF b = <<>> THEN FALSE
    ELSE IF Head(a) = Head(b) THEN IsSubseq(Tail(a), Tail(b))
    ELSE IsSubseq(a, Tail(b))

\* the kind of an input block
BlockKind(b) ==
    IF HasType(b, "tool_use") THEN "call"
    ELSE IF HasType(b, "tool_result") THEN "response"
    ELSE IF HasType(b, "text") \/ HasType(b, "image_url") THEN "text"
    ELSE "other"

\* the kinds of the blocks of input turn k, in order
BlockKinds(k) ==
    LET c == Get(messages[k], "content", PyNone)
    IN  IF c.k = "list" THEN [j \in 1..Len(c.items) |-> BlockKind(c.items[j])] ELSE <<>>

PartKind(p) ==
    IF "functionCall" \in DOMAIN p THEN "call"
    ELSE IF "functionResponse" \in DOMAIN p THEN "response"
    ELSE "text"

\* the kinds of what a sequence of output turns holds, in order (a string
\* content holds no separate parts)
OutputKinds(dir, turns) ==
    IF dir = "c2o"
    THEN Concat([i \in 1..Len(turns) |->
            IF "tool_calls" \in DOMAIN turns[i] THEN <<"call">>
            ELSE IF turns[i].role = "tool" THEN <<"response">>
            ELSE IF turns[i].content.k = "list"
            THEN [j \in 1..Len(turns[i].content.items) |-> "text"]
            ELSE <<>>])
    ELSE Concat([i \in 1..Len(turns) |->
            [j \in 1..Len(turns[i].parts) |-> PartKind(turns[i].parts[j])]])

SystemTextIsEmpty ==
    \A i \in 1..Len(SystemTurns) : Get(SystemTurns[i], "content", PyStr(<<>>)) = PyStr(<<>>)

\* C20: towards Gemini, an input with no system turn, or whose system turns
\* have the empty string as their joined text, gives an output without a
\* systemInstruction key.
C20_NoEmptySystemInstruction ==
    \A dir \in {"c2g", "o2g"} :
        (Done(dir) /\ SystemTextIsEmpty) => "systemInstruction" \notin DOMAIN out.value


\* the payload of a partial conversion, with an empty list under each key it lacks
PayloadWithDefaults(kept) ==
    [messages |-> IF "messages" \in kept THEN messages ELSE <<>>,
     tools |-> IF "tools" \in kept THEN tools ELSE <<>>]

\* C21: in every direction a payload that lacks the messages key, the tools
\* key or both is converted as the payload with an empty list under the
\* missing key is; with neither key the conversion does not raise; without the
\* messages key the output has an empty turn list and no systemInstruction,
\* without the tools key it has no tools key.
C21_MissingKeysDefault ==
    (pc = "done" /\ out.dir = "partial") =>
        LET r == out.result
        IN  /\ r = OutOf(out.via, ConvertBy(out.via, PayloadWithDefaults(out.kept), heap))
            /\ out.kept = {} => ~r.raised
            /\ ("messages" \notin out.kept /\ ~r.raised) =>
                  /\ Get(r.value, IF out.via = "c2o" THEN "messages" ELSE "contents", <<"none">>) = <<>>
                  /\ "systemInstruction" \notin DOMAIN r.value
            /\ ("tools" \notin out.kept /\ ~r.raised) => "tools" \notin DOMAIN r.value

\* a payload that holds a tools list and no messages key has been converted,
\* while the conversation at hand has turns: the output has the tools and an
\* empty turn list
C21_Witness ==
    /\ pc = "done" /\ out.dir = "partial" /\ ~out.result.raised
    /\ out.kept = {"tools"} /\ tools # <<>> /\ messages # <<>>
    /\ "tools" \in DOMAIN out.result.value
    /\ Get(out.result.value, "contents", <<>>) = <<>>
    /\ Get(out.result.value, "messages", <<>>) = <<>>

----------------------------------------------------------------------------
\* GeminiAPICaller.call_gemini: one call, against every way the token
\* refresh, the HTTP exchange and the provider's reply can turn out.

\* what the environment does with one call: the token refresh may fail, the
\* POST may time out or fail to connect, the status may be an error, the body
\* may not be JSON, and a JSON body has or lacks candidates, promptFeedback
\* and usageMetadata
Replies ==
    LET candidate == { [content |-> [parts |-> <<[text |-> "hi"], [text |-> "!"]>>],
                        finishReason |-> "MAX_TOKENS"],
                       [content |-> [parts |-> <<[functionCall |-> [name |-> "f"]]>>]],
                       [finishReason |-> "SAFETY"] }
        candidates == {<<>>, [candidates |-> <<>>]} \cup {[candidates |-> <<c>>] : c \in candidate}
        feedback == {<<>>, [promptFeedback |-> [safetyRatings |-> <<>>]],
                     [promptFeedback |-> [blockReason |-> "SAFETY"]]}
        usage == {<<>>, [usageMetadata |-> [totalTokenCount |-> 7]]}
    IN  { [kind |-> "refresh_error"], [kind |-> "timeout"], [kind |-> "connection_error"],
          [kind |-> "http_error", status_code |-> 400, text |-> "bad request"],
          [kind |-> "http_error", status_code |-> 503, text |-> ""],
          [kind |-> "not_json"] }
        \cup { [kind |-> "json", response_data |-> c @@ f @@ u] :
                 c \in candidates, f \in feedback, u \in usage }

\* the request as call_gemini leaves it: toolConfig, generationConfig and
\* labels are written into the caller's dict before the token is fetched
call_gemini_request(request, function_call_mode, thinking_budget, session_id, now) ==
    (IF "tools" \in DOMAIN request /\ function_call_mode # "auto"
     THEN [toolConfig |-> [functionCallingConfig |->
             [mode |-> CASE function_call_mode = "any" -> "ANY"
                         [] function_call_mode = "validated" -> "VALIDATED"
                         [] OTHER -> function_call_mode]]]
     ELSE <<>>)
    @@ (IF thinking_budget > 0
        THEN [generationConfig |-> [thinkingConfig |-> [thinkingBudget |-> thinking_budget]]]
        ELSE <<>>)
    @@ (IF session_id # ""
        THEN [labels |-> [ts |-> now, session_id |-> session_id, step_id |-> "",
                          iteration |-> "1", fc2 |-> "true",
                          function_call_mode |-> function_call_mode,
                          thinking_budget |-> NumTok(thinking_budget)]]
        ELSE <<>>)
    @@ request

\* the try block of call_gemini: what it returns, or the exception that
\* leaves it
call_gemini_try(reply, now) ==
    CASE reply.kind = "refresh_error" -> Raised("RefreshError")
      [] reply.kind = "timeout" -> Raised("Timeout")
      [] reply.kind = "connection_error" -> Raised("ConnectionError")
      [] reply.kind = "http_error" -> Raised("HTTPError")
      [] reply.kind = "not_json" -> Raised("JSONDecodeError")
      [] reply.kind = "json" ->
            LET response_data == reply.response_data
                has == "candidates" \in DOMAIN response_data /\ response_data.candidates # <<>>
                finish_reason ==
                    IF has /\ "finishReason" \in DOMAIN response_data.candidates[1]
                    THEN response_data.candidates[1].finishReason ELSE "STOP"
            IN  IF /\ "promptFeedback" \in DOMAIN response_data
                   /\ "blockReason" \in DOMAIN response_data.promptFeedback
                THEN Returned([error |-> <<"Prompt was blocked: ",
                                           response_data.promptFeedback.blockReason>>,
                               error_type |-> "PromptBlocked",
                               timestamp |-> now,
                               raw_response |-> response_data])
                ELSE IF "candidates" \notin DOMAIN response_data THEN Raised("KeyError")
                ELSE IF response_data.candidates = <<>> THEN Raised("IndexError")
                ELSE Returned([response |-> response_data.candidates[1],
                               model |-> "gemini-2.5-pro",
                               finish_reason |-> finish_reason,
                               timestamp |-> now]
                              @@ (IF "usageMetadata" \in DOMAIN response_data
                                  THEN [usage |-> response_data.usageMetadata]
                                  ELSE <<>>))

\* variant: only HTTPError and Timeout are caught
call_gemini_NoCatchAll(reply, now) ==
    LET body == call_gemini_try(reply, now)
    IN  IF body.raised /\ body.exc = "HTTPError"
        THEN Returned([error |-> <<"HTTP ", reply.status_code, ": ", reply.text>>,
                       error_type |-> "HTTPError", status_code |-> reply.status_code,
                       timestamp |-> now])
        ELSE IF body.raised /\ body.exc = "Timeout"
        THEN Returned([error |-> "Request timed out after 120 seconds",
                       error_type |-> "Timeout", timestamp |-> now])
        ELSE body

\* call_gemini: the try block and its three except clauses
call_gemini(reply, now) ==
    LET body == call_gemini_try(reply, now)
    IN  IF body.raised /\ body.exc = "HTTPError"
        THEN Returned([error |-> <<"HTTP ", reply.status_code, ": ", reply.text>>,
                       error_type |-> "HTTPError", status_code |-> reply.status_code,
                       timestamp |-> now])
        ELSE IF body.raised /\ body.exc = "Timeout"
        THEN Returned([error |-> "Request timed out after 120 seconds",
                       error_type |-> "Timeout", timestamp |-> now])
        ELSE IF body.raised
        THEN Returned([error |-> body.exc, error_type |-> body.exc, timestamp |-> now])
        ELSE body

\* the caller holds a request with or without a tools list
InitCall ==
    /\ fmt = "gemini"
    /\ messages = <<[role |-> "user", parts |-> <<[text |-> <<"a">>]>>]>>
    /\ tools \in {<<>>, <<[name |-> "f", description |-> "d"]>>}
    /\ heap = <<>>
    /\ pc = "build"
    /\ out = NoOut

CallGemini ==
    /\ pc = "build" /\ fmt = "gemini"
    /\ \E function_call_mode \in {"auto", "any"}, thinking_budget \in {0, 1},
          session_id \in {"", "s"}, reply \in Replies, now \in {"t1", "t2"} :
          out' = [dir |-> "call", reply |-> reply,
                  request |-> call_gemini_request(GeminiRequest, function_call_mode,
                                                  thinking_budget, session_id, now),
                  call |-> call_gemini(reply, now)]
    /\ pc' = "done"
    /\ UNCHANGED <<fmt, messages, tools, heap>>

SpecCall == InitCall /\ [][CallGemini]_vars

Called == pc = "done" /\ out.dir = "call"

\* the reply is one the call has to report as an error
IsErrorReply(reply) ==
    \/ reply.kind # "json"
    \/ /\ "promptFeedback" \in DOMAIN reply.response_data
       /\ "blockReason" \in DOMAIN reply.response_data.promptFeedback
    \/ "candidates" \notin DOMAIN reply.response_data
    \/ reply.response_data.candidates = <<>>

\* C22: call_gemini never raises, and its result holds exactly one of the
\* keys response and error: response with finish_reason, and usage exactly
\* when the reply had usage metadata, on success; error with error_type on an
\* HTTP error, a timeout, a blocked prompt, a reply without candidates or any
\* other exception.
C22_CallAlwaysReturnsResult ==
    Called =>
        /\ ~out.call.raised
        /\ LET r == out.call.value
           IN  /\ ("response" \in DOMAIN r) # ("error" \in DOMAIN r)
               /\ IsErrorReply(out.reply) <=> "error" \in DOMAIN r
               /\ "error" \in DOMAIN r => "error_type" \in DOMAIN r
               /\ "response" \in DOMAIN r =>
                     /\ "finish_reason" \in DOMAIN r
                     /\ "usage" \in DOMAIN r <=> "usageMetadata" \in DOMAIN out.reply.response_data

\* a reply with JSON that has no candidates key has been reported as an error
C22_Witness ==
    /\ Called
    /\ out.reply.kind = "json"
    /\ "candidates" \notin DOMAIN out.reply.response_data
    /\ "promptFeedback" \notin DOMAIN out.reply.response_data
    /\ ~out.call.raised
    /\ out.call.value.error_type = "KeyError"


\* every turn of the input is a user or assistant turn with a string content,
\* so that it gives exactly one output turn
PlainDialogue ==
    \A i \in 1..Len(messages) :
        /\ Get(messages[i], "role", "") \in {"user", "assistant"}
        /\ Get(messages[i], "content", PyNone).k = "str"
        /\ ~O2G_HasToolCalls(messages[i])

ClaudeResultPos ==
    UNION {{<<i, j>> : j \in {n \in 1..Len(messages[i].content.items) :
                                  HasType(messages[i].content.items[n], "tool_result")}} :
           i \in {n \in 1..Len(messages) :
                     /\ Get(messages[n], "content", PyNone).k = "list"
                     /\ ~(IsToolUseTurn(messages[n]) /\ messages[n].role = "assistant")}}

\* OpenAI input: positions <<i, 1>> of the tool-role turns translated as results
OpenAIResultPos ==
    {<<i, 1>> : i \in {n \in 1..Len(messages) :
                          Get(messages[n], "role", "") = "tool" /\ ~O2G_HasToolCalls(messages[n])}}

\* the place of position p among the positions of S, in input order
RankIn(S, p) == Cardinality({r \in S : Before(r, p)}) + 1

\* C24: a tool result resolves to the name of the last named call with its
\* identifier, wherever that call sits in the conversation - in a turn before
\* the result's turn or in a turn after it.
C24_MapCompleteBeforeResults ==
    /\ Done("o2g") =>
          \A p \in OpenAIResultPos : \A q \in OpenAICallPos :
              (OpenAIRefers(messages[p[1]], q) /\ OpenAILastCall(q))
                  => ResponseNames(out.value.contents)[RankIn(OpenAIResultPos, p)]
                         = OpenAICallName(q)
    /\ Done("c2o") =>
          \A p \in ClaudeResultPos : \A q \in ClaudeCallPos :
              (ClaudeRefers(messages[p[1]].content.items[p[2]], q) /\ ClaudeLastCall(q))
                  => ToolResultMessages(out.value.messages)[RankIn(ClaudeResultPos, p)].name
                         = ClaudeCallName(q)

\* a Claude result whose only call comes in a later turn has been given the
\* name of that call
C24_Witness ==
    /\ Done("c2o")
    /\ \E p \in ClaudeResultPos : \E q \in ClaudeCallPos :
          /\ ClaudeRefers(messages[p[1]].content.items[p[2]], q) /\ ClaudeLastCall(q)
          /\ \A r \in ClaudeCallPos :
                ClaudeCallId(r) = ClaudeCallId(q) => p[1] < r[1]
          /\ ToolResultMessages(out.value.messages)[RankIn(ClaudeResultPos, p)].name
                = ClaudeCallName(q)


\* the declarations of the request a fix was called on, as values
FixInputFuncs == [i \in 1..Len(tools) |-> ValueOfFunc(RequestFuncs[i], heap)]

\* the declarations of the request a fix returned
FixOutputFuncs ==
    IF "tools" \notin DOMAIN out.value THEN <<>>
    ELSE IF out.dir = "fix_c2o"
    THEN [i \in 1..Len(out.value.tools) |-> out.value.tools[i].function]
    ELSE Concat([w \in 1..Len(out.value.tools) |-> out.value.tools[w].functionDeclarations])

\* the required entry the patch of a named tool rewrites
StaleEntry(name) ==
    CASE name = "segment_anything" -> "object"
      [] name = "Pira_image2image" -> "cfg"
      [] name = "gemini_edit" -> "image"
      [] name = "outpaint" -> "prompt"

\* records f and g agree on every key outside keys, and have the same keys
SameExcept(f, g, keys) ==
    /\ DOMAIN f = DOMAIN g
    /\ \A key \in DOMAIN f \ keys : f[key] = g[key]

\* the required list after is the list before with only the stale entry
\* rewritten or removed: the other entries keep their values and order
OthersKept(name, before, after) ==
    IF name = "Pira_image2image"
    THEN after = SelectSeq(before, LAMBDA x : x # StaleEntry(name))
    ELSE /\ Len(after) = Len(before)
         /\ \A n \in 1..Len(before) : before[n] # StaleEntry(name) => after[n] = before[n]

\* the schema q is the schema p of a declaration called name, changed only
\* where the patch of that name may change it
SchemaFrame(name, p, q) ==
    /\ SameExcept(p, q, {"required"} \cup (IF name = "gemini_edit" THEN {"properties"} ELSE {}))
    /\ "required" \in DOMAIN p => OthersKept(name, p.required, q.required)
    /\ (name = "gemini_edit" /\ "properties" \in DOMAIN p) =>
          /\ SameExcept(p.properties, q.properties, {"images"})
          /\ "images" \in DOMAIN p.properties =>
                SameExcept(p.properties.images, q.properties.images, {"type"})

\* C25: every copy of the repair pass returns each declaration of another
\* name than the four named tools deep-equal, and each declaration of a named
\* tool deep-equal outside parameters.required (and, for gemini_edit,
\* parameters.properties.images.type); in a rewritten required list only the
\* entry that tool's patch names is touched, the others keep value and order.
C25_RepairFrame ==
    \A dir \in FixDirs :
        Done(dir) =>
            /\ Len(FixOutputFuncs) = Len(FixInputFuncs)
            /\ \A i \in 1..Len(FixInputFuncs) :
                  LET before == FixInputFuncs[i]
                      after == FixOutputFuncs[i]
                  IN  IF before.name \notin RepairedTools THEN after = before
                      ELSE /\ SameExcept(before, after, {"parameters"})
                           /\ "parameters" \in DOMAIN before =>
                                 IF IsNoneSlot(before.parameters)
                                 THEN after.parameters = before.parameters
                                 ELSE SchemaFrame(before.name, before.parameters.val,
                                                  after.parameters.val)

\* a request with a segment_anything declaration, whose required list has
\* been rewritten, beside a declaration of another name that lists the same
\* stale entry and is returned as it was
C25_Witness ==
    /\ \E dir \in FixDirs : Done(dir)
    /\ \E i, j \in 1..Len(FixInputFuncs) :
          /\ FixInputFuncs[i].name = "segment_anything"
          /\ FixInputFuncs[i].parameters.val = [required |-> <<"object", "x">>]
          /\ FixOutputFuncs[i].parameters.val = [required |-> <<"object_english_name", "x">>]
          /\ FixInputFuncs[j].name = "other"
          /\ FixInputFuncs[j].parameters = [val |-> [required |-> <<"object", "cfg">>]]
          /\ FixOutputFuncs[j] = FixInputFuncs[j]


\* C26: in every OpenAI -> Gemini output the args of every functionCall part
\* is a JSON object, whatever the arguments value of the call was.
C26_ArgsAlwaysObject ==
    Done("o2g") =>
        \A n \in 1..Len(AllParts(out.value.contents)) :
            "functionCall" \in DOMAIN AllParts(out.value.contents)[n]
                => AllParts(out.value.contents)[n].functionCall.args.k = "obj"


----------------------------------------------------------------------------
\* process_folder of the three converters: the JSON files found are taken one
\* by one; heap holds the files found, out the loop's counters and what has
\* been written.

MaxFiles == 3

\* variant: the try of the loop body has no except clause
process_file_NoCatch(dir, f) ==
    IF f.read # "ok" \/ ~IsDict(f.payload) \/ ConvertBy(dir, f.payload, <<>>).raised \/ f.write # "ok"
    THEN [status |-> "escaped", wrote |-> "none"]
    ELSE [status |-> "successful", wrote |-> "complete"]

\* the body of the loop on one file: json.load, convert_request, makedirs,
\* json.dump, all inside one try whose except clause counts the failure
process_file(dir, f) ==
    IF f.read # "ok" THEN [status |-> "failed", wrote |-> "none"]
    ELSE IF ~IsDict(f.payload) THEN [status |-> "failed", wrote |-> "none"]
    ELSE IF ConvertBy(dir, f.payload, <<>>).raised THEN [status |-> "failed", wrote |-> "none"]
    ELSE IF f.write = "makedirs_fails" THEN [status |-> "failed", wrote |-> "none"]
    ELSE IF f.write = "dump_fails" THEN [status |-> "failed", wrote |-> "partial"]
    ELSE [status |-> "successful", wrote |-> "complete"]

InitFolder ==
    /\ fmt \in {"claude", "openai"}
    /\ messages = <<>>
    /\ tools = <<>>
    /\ heap = <<>>
    /\ pc = "build"
    /\ out = NoOut

\* one more file is in the folder: unreadable, not JSON, a JSON list, a
\* request that converts, or a request on which convert_request raises; and
\* its output path can be written, or not
AddFile ==
    /\ pc = "build" /\ Len(heap) < MaxFiles
    /\ \E f \in { [read |-> "unreadable"], [read |-> "not_json"],
                  [read |-> "ok", payload |-> PyList(<<>>), write |-> "ok"] }
                \cup { [read |-> "ok", payload |-> [messages |-> <<Msg("user", PyStr(<<"a">>))>>],
                        write |-> w] : w \in {"ok", "makedirs_fails", "dump_fails"} }
                \cup { [read |-> "ok", write |-> "ok",
                        payload |-> [tools |-> <<IF fmt = "claude"
                             THEN [name |-> "outpaint", description |-> "d", input_schema |-> PyNone]
                             ELSE [type |-> "function",
                                   function |-> [name |-> "outpaint", description |-> "d",
                                                 parameters |-> PyNone]]>>]] } :
          heap' = Append(heap, f)
    /\ UNCHANGED <<fmt, messages, tools, pc, out>>

\* glob has listed the files and the counters are zero
StartFolder ==
    /\ pc = "build"
    /\ \E dir \in (IF fmt = "claude" THEN {"c2g", "c2o"} ELSE {"o2g"}) :
          out' = [dir |-> "folder", converter |-> dir, attempts |-> <<>>,
                  successful |-> 0, failed |-> 0, written |-> <<>>]
    /\ pc' = IF heap = <<>> THEN "done" ELSE "loop"
    /\ UNCHANGED <<fmt, messages, tools, heap>>

\* one iteration of the loop
ProcessFile ==
    /\ pc = "loop"
    /\ LET i == Len(out.attempts) + 1
           r == process_file(out.converter, heap[i])
       IN  /\ out' = [out EXCEPT
                        !.attempts = Append(@, i),
                        !.successful = IF r.status = "successful" THEN @ + 1 ELSE @,
                        !.failed = IF r.status = "failed" THEN @ + 1 ELSE @,
                        !.written = IF r.wrote # "none"
                                    THEN Append(@, [file |-> i, wrote |-> r.wrote]) ELSE @]
           /\ pc' = IF r.status = "escaped" THEN "crashed"
                    ELSE IF i = Len(heap) THEN "done" ELSE "loop"
    /\ UNCHANGED <<fmt, messages, tools, heap>>

NextFolder ==
    \/ AddFile
    \/ StartFolder
    \/ ProcessFile

SpecFolder == InitFolder /\ [][NextFolder]_vars

\* convert_request returns on the content of the file
FileConverts(dir, f) ==
    f.read = "ok" /\ IsDict(f.payload) /\ ~ConvertBy(dir, f.payload, <<>>).raised

\* C27: process_folder attempts the files found once each, in their order; a
\* failure of reading, converting or writing is counted and the loop goes on;
\* successful + failed is the number of files attempted, at the end the number
\* of files found; and an output file exists only for a file whose conversion
\* succeeded.
C27_PerFileIsolation ==
    (pc \in {"loop", "done", "crashed"}) =>
        /\ pc # "crashed"
        /\ out.attempts = [k \in 1..Len(out.attempts) |-> k]
        /\ Len(out.attempts) <= Len(heap)
        /\ pc = "done" <=> Len(out.attempts) = Len(heap)
        /\ out.successful + out.failed = Len(out.attempts)
        /\ out.successful = Cardinality({k \in 1..Len(out.attempts) :
                                FileConverts(out.converter, heap[k]) /\ heap[k].write = "ok"})
        /\ \A n \in 1..Len(out.written) :
              FileConverts(out.converter, heap[out.written[n].file])

\* a folder of three files has been processed to the end: the first could not
\* be converted, the second could not be written, the third was converted
C27_Witness ==
    /\ pc = "done" /\ out.dir = "folder"
    /\ Len(heap) = 3
    /\ ~FileConverts(out.converter, heap[1])
    /\ FileConverts(out.converter, heap[2]) /\ heap[2].write = "makedirs_fails"
    /\ out.successful = 1 /\ out.failed = 2
    /\ out.written = <<[file |-> 3, wrote |-> "complete"]>>

\* ---------------------------------------------------------------------------
\* C28: every turn of the contents list returned by convert_request of
\* Claude->Gemini and of OpenAI->Gemini has a parts key holding a non-empty
\* list and a role that is "user" or "model"; no turn with empty parts
\* survives the final repair pass.
WellFormedTurn(turn) ==
    /\ "parts" \in DOMAIN turn
    /\ turn.parts # <<>>
    /\ "role" \in DOMAIN turn
    /\ turn.role \in {"user", "model"}

C28_TurnsWellFormed ==
    \A dir \in {"c2g", "o2g"} :
       Done(dir) =>
          \A i \in 1..Len(out.value.contents) :
             WellFormedTurn(out.value.contents[i])

\* A conversion to Gemini that dropped a turn (its parts list was empty) and
\* kept another one.
C28_Witness ==
    /\ \E dir \in {"c2g", "o2g"} : Done(dir)
    /\ Len(out.value.contents) > 0
    /\ Len(out.value.contents) < Len(messages)
    /\ \A i \in 1..Len(messages) : messages[i].role \in {"user", "assistant"}

\* ---------------------------------------------------------------------------
\* C29: the two routes to Gemini agree on tool calls.  The call pairs of a
\* Gemini turn list, flattened in order.
FunctionCalls(contents) ==
    LET parts == AllParts(contents)
        calls == SelectIdx([j \in 1..Len(parts) |-> "functionCall" \in DOMAIN parts[j]], 1)
    IN  [j \in 1..Len(calls) |->
            [name |-> parts[calls[j]].functionCall.name,
             args |-> parts[calls[j]].functionCall.args]]

\* every tool_use block sits in an assistant turn and its input is an object
ToolUsesWellPlaced ==
    \A i \in 1..Len(messages) :
       IsToolUseTurn(messages[i]) =>
          /\ messages[i].role = "assistant"
          /\ \A j \in 1..Len(messages[i].content.items) :
                HasType(messages[i].content.items[j], "tool_use") =>
                   Get(messages[i].content.items[j], "input", PyObj(<<>>)).k = "obj"

\* Claude->OpenAI followed by OpenAI->Gemini, on the payload of the state
ViaOpenAI ==
    LET mid == C2O_convert_request(Payload, heap)
    IN  IF mid.raised THEN mid ELSE O2G_convert_request(mid.value, mid.heap)

\* C29: for every Claude conversation whose tool_use blocks all sit in
\* assistant turns and have JSON-object inputs, the flattened sequence of
\* functionCall (name, args) pairs of the route through OpenAI equals the one
\* of the direct Claude->Gemini conversion.
C29_RoutesAgreeOnCalls ==
    (Done("c2g") /\ ToolUsesWellPlaced) =>
       /\ ~ViaOpenAI.raised
       /\ FunctionCalls(ViaOpenAI.value.contents) = FunctionCalls(out.value.contents)

\* The same statement for conversations whose tool_use blocks all carry a name.
ToolUsesNamed ==
    \A i \in 1..Len(messages) :
       IsToolUseTurn(messages[i]) =>
          \A j \in 1..Len(messages[i].content.items) :
             HasType(messages[i].content.items[j], "tool_use") =>
                "name" \in DOMAIN messages[i].content.items[j]

C29_RoutesAgreeOnNamedCalls ==
    (Done("c2g") /\ ToolUsesWellPlaced /\ ToolUsesNamed) =>
       /\ ~ViaOpenAI.raised
       /\ FunctionCalls(ViaOpenAI.value.contents) = FunctionCalls(out.value.contents)

\* ---------------------------------------------------------------------------
\* C30: the copies of fix_request_issues agree.
GeminiFixDirs == {"fix_c2g", "fix_o2g", "fix_caller"}

\* two results of a repair pass: both raise the same exception, or both
\* return deep-equal requests
SameOutcome(r, o) ==
    /\ r.raised = o.raised
    /\ IF r.raised THEN r.exc = o.exc
       ELSE r.value = o.value

\* a declaration alone in a Gemini-format request
Rewrapped(func) == [contents |-> <<>>, tools |-> <<[functionDeclarations |-> <<func>>]>>]

HasParametersObject(func) ==
    "parameters" \in DOMAIN func /\ ~IsNoneSlot(func.parameters)

\* C30: the three Gemini-shaped copies of fix_request_issues
\* (ClaudeToGeminiConverter, OpenAIToGeminiConverter, GeminiAPICaller) return
\* deep-equal results, or fail alike, on every Gemini-format request; and the
\* OpenAI-shaped copy of ClaudeToOpenAIConverter leaves a declaration that has
\* a parameters object as the Gemini copies leave it once it is re-wrapped in
\* a functionDeclarations list.
C30_FixCopiesAgree ==
    /\ (pc = "done" /\ out.dir \in GeminiFixDirs) =>
          /\ SameOutcome(C2G_fix_request_issues(GeminiRequest, heap), out)
          /\ SameOutcome(O2G_fix_request_issues(GeminiRequest, heap), out)
          /\ SameOutcome(Caller_fix_request_issues(GeminiRequest, heap), out)
    /\ Done("fix_c2o") =>
          \A i \in 1..Len(tools) :
             ("function" \in DOMAIN tools[i] /\ HasParametersObject(tools[i].function)) =>
                \A copy \in GeminiFixDirs :
                   LET g == FixBy(copy, Rewrapped(tools[i].function), heap)
                   IN  /\ ~g.raised
                       /\ ValueOfFunc(g.value.tools[1].functionDeclarations[1], g.heap)
                             = ValueOfFunc(out.value.tools[i].function, heap)

\* The caller's copy repaired a Pira_image2image declaration: the list it
\* returned differs from the one it was given.
C30_Witness ==
    /\ Done("fix_caller")
    /\ \E i \in 1..Len(tools) :
          /\ tools[i].name = "Pira_image2image"
          /\ FixOutputFuncs[i] # FixInputFuncs[i]

====
